---- MODULE Spec2Model ----
(***************************************************************************)
(* Model of the mauve labeled object store (backend crate): the collection *)
(* storage core over sled trees, the label indexer (supervisor and         *)
(* per-collection worker) and the search / query engine.                   *)
(***************************************************************************)
EXTENDS Naturals, Integers, Sequences, FiniteSets, TLC

(***************************************************************************)
(* Bounds of the model.                                                    *)
(***************************************************************************)
\* requests issued in one behaviour of the full system
MaxOps == 3
\* signals held at once by the unbounded Backend -> supervisor channel
MaxSignals == 2
\* entries of one posting list
MaxPosting == 3
\* direct upsert / downsert calls in one behaviour of the index harness
MaxIndexCalls == 4
\* labels of one SearchRequest
MaxSearchLabels == 2
\* largest query_concurrency and query_timeout_secs a configuration sets
MaxConcurrency == 1
MaxTimeout == 1
\* seconds a search is followed for
MaxClock == MaxTimeout + 1
\* largest object_max_size_mb a configuration sets, in MiB
MaxObjectSize == 1
\* keys of one tree given to list_objects
MaxKeys == 3
\* characters of a label name, of a label value and of a string parsed
MaxLabelLen == 2
\* elements of a Vec given to the CBOR codec
MaxVecLen == 2
\* labels of the metadata returned with an object
MaxHeaderLabels == 2
\* Collection methods and searches called in a row
MaxCalls == 2
\* request handlers running put_object at the same time
MaxCallers == 2
\* events processed in a row by one worker
MaxEvents == 3
\* labels of the metadata of one event
MaxEventLabels == 2
\* fields of a QueryRequest
MaxFields == 3
\* query_concurrency of the configuration of a QueryRequest
MaxQueryConcurrency == 2
\* leader terms, log indices and entries of one append of the Raft log
MaxTerm == 2
MaxIndex == 3
MaxAppend == 2

Collections == {"c1", "c2"}
\* object names used by the request handlers
Names == {"a"}
\* object names whose ObjectRefs the index harness inserts and removes
IndexNames == {"a", "b"}
Payloads == {"b1", "b2"}

(***************************************************************************)
(* Option and Result values.                                               *)
(***************************************************************************)
None == [some |-> FALSE]
Some(v) == [some |-> TRUE, v |-> v]
Ok(v) == [ok |-> TRUE, val |-> v]
Err(e) == [ok |-> FALSE, err |-> e]

EmptyMap == [k \in {} |-> k]

(***************************************************************************)
(* str::to_ascii_lowercase on the strings of the model.                    *)
(***************************************************************************)
Lower(s) ==
    CASE s = "A" -> "a"
      [] s = "K" -> "k"
      [] s = "V" -> "v"
      [] OTHER -> s

(***************************************************************************)
(* Label (labels.rs) and ObjectRef (objects.rs).                           *)
(***************************************************************************)
LabelNew(name, value) == [name |-> Lower(name), value |-> Lower(value)]
to_fwd(l) == l.name \o "=" \o l.value
to_rev(l) == l.value \o "=" \o l.name

ObjectRefNew(collection, name) ==
    [collection |-> Lower(collection), name |-> Lower(name)]

\* the labels a request can carry in its x-mauve-labels header
L1 == LabelNew("k", "v")
L2 == LabelNew("k", "w")
L3 == LabelNew("s", "v")
Labels == {L1, L2, L3}

\* Metadata (meta.rs); only the label set matters to the index
MetadataOf(labels) == [labels |-> labels]
Metadatas == {MetadataOf({}), MetadataOf({L1})}

(***************************************************************************)
(* The two codecs.  A stored value remembers the codec that wrote it; a    *)
(* reader using the other codec fails to decode it.                        *)
(***************************************************************************)
\* ToFromMauve, derived by the MauveObject macro: ciborium (CBOR)
to_object(x) == [codec |-> "cbor", val |-> x]
from_object(b) ==
    IF b.codec = "cbor" THEN Ok(b.val) ELSE Err("CborError")

\* bincode, used by the indexer
bincode_serialize(x) == [codec |-> "bincode", val |-> x]
bincode_deserialize(b) ==
    IF b.codec = "bincode" THEN Ok(b.val) ELSE Err("BincodeError")

(***************************************************************************)
(* sled: a Db is a map from tree name to tree, a tree a map from key to    *)
(* value.  Tree names are format!("{prefix}{name}") kept as a pair.        *)
(***************************************************************************)
DataTree(c) == <<"mauve_data::", c>>
MetaTree(c) == <<"mauve_meta::", c>>
FwdTree(c) == <<"mauve_fwd::", c>>
RevTree(c) == <<"mauve_rev::", c>>
CollectionTrees(c) == {DataTree(c), MetaTree(c), FwdTree(c), RevTree(c)}

tree_names(d) == DOMAIN d
open_tree(d, t) == IF t \in DOMAIN d THEN d ELSE (t :> EmptyMap) @@ d
drop_tree(d, t) == [x \in (DOMAIN d) \ {t} |-> d[x]]

tree_get(t, k) == IF k \in DOMAIN t THEN Some(t[k]) ELSE None
tree_contains_key(t, k) == k \in DOMAIN t
tree_insert(t, k, v) == (k :> v) @@ t
tree_remove(t, k) == [x \in (DOMAIN t) \ {k} |-> t[x]]

(***************************************************************************)
(* Collection (collection.rs), over the trees of a Db d.                   *)
(***************************************************************************)
head_object(d, c, ident) == Ok(tree_contains_key(d[DataTree(c)], ident))

get_object(d, c, ident) ==
    LET got == tree_get(d[DataTree(c)], ident)
    IN  IF got.some THEN Ok(got.v) ELSE Err("ObjectNotFound")

get_object_metadata(d, c, ident) ==
    LET got == tree_get(d[MetaTree(c)], ident)
    IN  IF got.some THEN from_object(got.v) ELSE Err("ObjectNotFound")

\* the result and the Db after put_object; the insert emits Event::Insert
put_object_ignores_replace(d, c, ident, object, replace) ==
    [res |-> Ok(ObjectRefNew(c, ident)),
     db |-> [d EXCEPT ![DataTree(c)] = tree_insert(@, ident, object)],
     wrote |-> TRUE]

put_object_conflict_overwrites(d, c, ident, object, replace) ==
    LET old == tree_get(d[DataTree(c)], ident)
    IN  [res |-> IF old.some /\ ~replace
                 THEN Err("PutObjectExistsNoReplace")
                 ELSE Ok(ObjectRefNew(c, ident)),
         db |-> [d EXCEPT ![DataTree(c)] = tree_insert(@, ident, object)],
         wrote |-> TRUE]

put_object(d, c, ident, object, replace) ==
    LET old == tree_get(d[DataTree(c)], ident)
    IN  IF old.some /\ ~replace
        THEN [res |-> Err("PutObjectExistsNoReplace"), db |-> d, wrote |-> FALSE]
        ELSE [res |-> Ok(ObjectRefNew(c, ident)),
              db |-> [d EXCEPT ![DataTree(c)] = tree_insert(@, ident, object)],
              wrote |-> TRUE]

put_object_metadata(d, c, ident, meta) ==
    [d EXCEPT ![MetaTree(c)] = tree_insert(@, ident, to_object(meta))]

\* the prior bytes and the Db after delete_object
delete_object(d, c, ident) ==
    [res |-> Ok(tree_get(d[DataTree(c)], ident)),
     db |-> [d EXCEPT ![DataTree(c)] = tree_remove(@, ident)]]

\* Into<MauveServeError> for MauveError (errors.rs): the HTTP status of a
\* handler's result
ServeStatus(res) ==
    IF res.ok THEN 200
    ELSE CASE res.err = "PutObjectExistsNoReplace" -> 409
           [] res.err = "ObjectNotFound" -> 404
           [] OTHER -> 500

(***************************************************************************)
(* CollectionIndexer (indexer.rs): upsert and downsert on one index tree,  *)
(* each a single-tree transaction; a failure aborts and leaves the tree.   *)
(***************************************************************************)
\* Vec::retain(|x| x != or)
Retain(list, or) == SelectSeq(list, LAMBDA x : x # or)

upsert(t, labelstr, or) ==
    LET got == tree_get(t, labelstr)
    IN  IF got.some
        THEN LET old == bincode_deserialize(got.v)
             IN  IF ~old.ok
                 THEN [res |-> Err("SledTxError"), tree |-> t]
                 ELSE [res |-> Ok("unit"),
                       tree |-> tree_insert(t, labelstr,
                                    bincode_serialize(Append(old.val, or)))]
        ELSE [res |-> Ok("unit"),
              tree |-> tree_insert(t, labelstr, bincode_serialize(<<or>>))]

downsert(t, labelstr, or) ==
    LET got == tree_get(t, labelstr)
    IN  IF got.some
        THEN LET old == bincode_deserialize(got.v)
             IN  IF ~old.ok
                 THEN [res |-> Err("SledTxError"), tree |-> t]
                 ELSE IF Len(old.val) = 1
                      THEN [res |-> Ok("unit"), tree |-> tree_remove(t, labelstr)]
                      ELSE [res |-> Ok("unit"),
                            tree |-> tree_insert(t, labelstr,
                                         bincode_serialize(Retain(old.val, or)))]
        ELSE [res |-> Ok("unit"), tree |-> t]

\* the loop `for label in meta.labels` of process_event: op is upsert or
\* downsert, applied to the forward then the reverse tree of every label;
\* the first failure returns, keeping what earlier transactions committed
RECURSIVE ForLabels(_, _, _, _, _)
ForLabels(d, c, labels, or, insert) ==
    IF labels = {}
    THEN [res |-> Ok("unit"), db |-> d]
    ELSE LET label == CHOOSE l \in labels : TRUE
             f == IF insert THEN upsert(d[FwdTree(c)], to_fwd(label), or)
                            ELSE downsert(d[FwdTree(c)], to_fwd(label), or)
             d1 == [d EXCEPT ![FwdTree(c)] = f.tree]
             r == IF insert THEN upsert(d1[RevTree(c)], to_rev(label), or)
                            ELSE downsert(d1[RevTree(c)], to_rev(label), or)
             d2 == [d1 EXCEPT ![RevTree(c)] = r.tree]
         IN  IF ~f.res.ok THEN [res |-> f.res, db |-> d]
             ELSE IF ~r.res.ok THEN [res |-> r.res, db |-> d1]
             ELSE ForLabels(d2, c, labels \ {label}, or, insert)

\* the posting stored under an index key, decoded with the codec that
\* wrote it; a missing key is the empty posting
PostingAt(t, key) == IF key \in DOMAIN t THEN t[key].val ELSE <<>>
Occurrences(list, or) == Len(SelectSeq(list, LAMBDA x : x = or))
InPosting(t, key, or) == Occurrences(PostingAt(t, key), or) >= 1

Insert(key) == [type |-> "Insert", key |-> key]
Remove(key) == [type |-> "Remove", key |-> key]

\* process_event on the worker's Collection handle for c
process_event(d, c, event) ==
    LET or == ObjectRefNew(c, event.key)
    IN  IF event.type = "Insert"
        THEN LET bytes == tree_get(d[MetaTree(c)], event.key)
             IN  IF ~bytes.some
                 THEN [res |-> Ok("unit"), db |-> d]
                 ELSE LET meta == bincode_deserialize(bytes.v)
                      IN  IF ~meta.ok
                          THEN [res |-> meta, db |-> d]
                          ELSE ForLabels(d, c, meta.val.labels, or, TRUE)
        ELSE LET bytes == tree_get(d[MetaTree(c)], event.key)
                 d1 == [d EXCEPT ![MetaTree(c)] = tree_remove(@, event.key)]
             IN  IF ~bytes.some
                 THEN [res |-> Ok("unit"), db |-> d1]
                 ELSE LET meta == bincode_deserialize(bytes.v)
                      IN  IF ~meta.ok
                          THEN [res |-> meta, db |-> d1]
                          ELSE ForLabels(d1, c, meta.val.labels, or, FALSE)

(***************************************************************************)
(* Backend (backend.rs).                                                   *)
(***************************************************************************)
\* the four open_tree calls of get_collection
get_collection(d, name) ==
    open_tree(open_tree(open_tree(open_tree(d,
        DataTree(name)), MetaTree(name)), FwdTree(name)), RevTree(name))

list_collections(d) ==
    {t[2] : t \in {x \in tree_names(d) : x[1] = "mauve_meta::"}}

\* the four drop_tree calls of delete_collection
drop_collection_keeps_rev(d, name) ==
    drop_tree(drop_tree(drop_tree(d,
        DataTree(name)), MetaTree(name)), FwdTree(name))

drop_collection(d, name) ==
    drop_tree(drop_tree(drop_tree(drop_tree(d,
        DataTree(name)), MetaTree(name)), FwdTree(name)), RevTree(name))

\* IndexerSignal; a Watch or Unwatch carries a Collection handle, which is
\* stale once the trees it was opened on have been dropped
Watch(c) == [type |-> "Watch", c |-> c, stale |-> FALSE]
Unwatch(c) == [type |-> "Unwatch", c |-> c, stale |-> FALSE]
Shutdown == [type |-> "Shutdown", c |-> "", stale |-> FALSE]

(***************************************************************************)
(* State.                                                                  *)
(***************************************************************************)
VARIABLES
    db,        \* sled::Db: tree name -> (key -> value)
    signals,   \* Backend.signals: the channel to the indexer supervisor
    sup,       \* the supervisor task: "starting" | "running"
    watching,  \* keys of Indexer.watching
    chan,      \* control channel of each collection's worker
    worker,    \* "none" | "spawned" | "waiting" | "busy" | "exited"
    wstale,    \* the worker's Collection handle is on dropped trees
    event,     \* the data event received by a busy worker
    req,       \* upload handler between put_object and put_object_metadata
    last,      \* the last Collection / Backend call and its result
    shadow,    \* what each collection's data is required to hold
    coldwrite, \* collections written while their worker was not running
    ops,       \* calls issued so far
    config,    \* MauveConfig: query_concurrency, query_timeout_secs
    spc,       \* perform_search: "idle" | "spawning" | "waiting" | "done"
    sreq,      \* the SearchRequest, and whether its collection existed
    tasks,     \* the label tasks spawned by perform_search
    includes,  \* DashSet filled by the Include tasks
    excludes,  \* DashSet filled by the Exclude tasks
    sresult,   \* what perform_search returned
    clock,     \* seconds elapsed since perform_search was called
    mux,       \* Indexer.mux: collections whose worker initialize started
    down,      \* the shutdown fairing has sent Shutdown
    pin,       \* argument of a function applied on its own
    pout,      \* its result, None until applied
    pop        \* the function applied

storeVars == <<db>>
indexerVars == <<signals, sup, watching, chan, worker, wstale, event>>
apiVars == <<req, last, shadow, coldwrite, ops>>
searchVars == <<config, spc, sreq, tasks, includes, excludes, sresult, clock>>
pureVars == <<pin, pout, pop>>
vars == <<db, signals, sup, watching, chan, worker, wstale, event,
          req, last, shadow, coldwrite, ops,
          config, spc, sreq, tasks, includes, excludes, sresult, clock,
          mux, down, pin, pout, pop>>

NoReq == [active |-> FALSE]
NoCall == [op |-> "none"]

\* Backend::open: the supervisor is spawned, nothing has been requested
IdleSystem ==
    /\ signals = <<>>
    /\ sup = "starting"
    /\ watching = {}
    /\ chan = [c \in Collections |-> <<>>]
    /\ worker = [c \in Collections |-> "none"]
    /\ wstale = [c \in Collections |-> FALSE]
    /\ event = [c \in Collections |-> None]
    /\ req = NoReq
    /\ last = NoCall
    /\ shadow = [c \in Collections |-> EmptyMap]
    /\ coldwrite = {}
    /\ ops = 0
    /\ mux = {}
    /\ down = FALSE

\* no function is applied on its own
NoPure == pin = None /\ pout = None /\ pop = "none"

\* Backend::open on an empty database directory
InitSystem == db = EmptyMap /\ IdleSystem

\* MauveConfig::default
DefaultConfig ==
    [object_max_size_mb |-> 30, query_concurrency |-> 16,
     query_timeout_secs |-> 60]

\* no search has been requested
NoSearch ==
    /\ spc = "idle"
    /\ sreq = [collection |-> "c1", labels |-> <<>>, existed |-> FALSE]
    /\ tasks = <<>>
    /\ includes = {}
    /\ excludes = {}
    /\ sresult = Err("NotYetExecuted")
    /\ clock = 0

\* a worker is running once spawned and until it leaves its loop
Running(c) == worker[c] \in {"waiting", "busy"}

\* sled delivers a data event to the subscriber of a waiting worker; a
\* worker that is not subscribed when the write happens never sees it
Deliver(c, ev) ==
    IF worker[c] = "waiting" /\ ~wstale[c]
    THEN /\ worker' = [worker EXCEPT ![c] = "busy"]
         /\ event' = [event EXCEPT ![c] = Some(ev)]
    ELSE UNCHANGED <<worker, event>>

NoteWrite(c) ==
    coldwrite' = IF Running(c) /\ ~wstale[c] THEN coldwrite ELSE coldwrite \cup {c}

(***************************************************************************)
(* Request handlers (api/objects.rs).                                      *)
(***************************************************************************)
\* post_object (replace = FALSE) and put_object (replace = TRUE) up to the
\* return of Collection::put_object
Upload(c, n, object, meta, replace) ==
    /\ ops < MaxOps
    /\ ~req.active
    /\ Len(signals) < MaxSignals
    /\ LET d1 == get_collection(db, c)
           r == put_object(d1, c, n, object, replace)
           exists == n \in DOMAIN shadow[c]
       IN  /\ db' = r.db
           /\ signals' = Append(signals, Watch(c))
           /\ req' = IF r.res.ok
                     THEN [active |-> TRUE, c |-> c, n |-> n, meta |-> meta,
                           stale |-> FALSE]
                     ELSE NoReq
           /\ last' = [op |-> "put_object", c |-> c, n |-> n, res |-> r.res,
                       status |-> ServeStatus(r.res),
                       expect |-> IF exists /\ ~replace
                                  THEN Err("PutObjectExistsNoReplace")
                                  ELSE Ok(ObjectRefNew(c, n))]
           /\ shadow' = IF exists /\ ~replace THEN shadow
                        ELSE [shadow EXCEPT ![c] = (n :> object) @@ @]
           /\ IF r.wrote
              THEN Deliver(c, Insert(n)) /\ NoteWrite(c)
              ELSE UNCHANGED <<worker, event, coldwrite>>
    /\ ops' = ops + 1
    /\ UNCHANGED <<sup, watching, chan, wstale>>
    /\ UNCHANGED searchVars
    /\ UNCHANGED <<mux, down, pureVars>>

ApiPostObject ==
    \E c \in Collections, n \in Names, b \in Payloads, m \in Metadatas :
        Upload(c, n, b, m, FALSE)

ApiPutObject ==
    \E c \in Collections, n \in Names, b \in Payloads, m \in Metadatas :
        Upload(c, n, b, m, TRUE)

\* the rest of post_object / put_object: Collection::put_object_metadata;
\* on a handle whose trees were dropped sled returns CollectionNotFound
ApiUploadMetadata ==
    /\ req.active
    /\ db' = IF req.stale THEN db
             ELSE put_object_metadata(db, req.c, req.n, req.meta)
    /\ req' = NoReq
    /\ UNCHANGED <<last, shadow, coldwrite, ops>>
    /\ UNCHANGED <<indexerVars, searchVars>>
    /\ UNCHANGED <<mux, down, pureVars>>

\* delete_object
ApiDeleteObject ==
    \E c \in Collections, n \in Names :
        /\ ops < MaxOps
        /\ Len(signals) < MaxSignals
        /\ LET d1 == get_collection(db, c)
               r == delete_object(d1, c, n)
           IN  /\ db' = r.db
               /\ last' = [op |-> "delete_object", c |-> c, n |-> n, res |-> r.res,
                           expect |-> IF n \in DOMAIN shadow[c]
                                      THEN Ok(Some(shadow[c][n]))
                                      ELSE Ok(None)]
        /\ signals' = Append(signals, Watch(c))
        /\ shadow' = [shadow EXCEPT ![c] = tree_remove(@, n)]
        /\ Deliver(c, Remove(n))
        /\ NoteWrite(c)
        /\ ops' = ops + 1
        /\ UNCHANGED <<sup, watching, chan, wstale, req>>
        /\ UNCHANGED searchVars
        /\ UNCHANGED <<mux, down, pureVars>>

\* head_object: opens the collection, reads the data tree
ApiHeadObject ==
    \E c \in Collections, n \in Names :
        /\ ops < MaxOps
        /\ Len(signals) < MaxSignals
        /\ db' = get_collection(db, c)
        /\ signals' = Append(signals, Watch(c))
        /\ last' = [op |-> "head_object", c |-> c, n |-> n,
                    res |-> head_object(get_collection(db, c), c, n)]
        /\ ops' = ops + 1
        /\ UNCHANGED <<sup, watching, chan, worker, wstale, event>>
        /\ UNCHANGED <<req, shadow, coldwrite>>
        /\ UNCHANGED searchVars
        /\ UNCHANGED <<mux, down, pureVars>>

(***************************************************************************)
(* Backend::delete_collection: get_collection (which emits Watch), then    *)
(* Unwatch, then the four drop_tree calls.  Every handle opened on the     *)
(* dropped trees becomes stale.                                            *)
(***************************************************************************)
MarkStale(sigs, c) ==
    [i \in 1..Len(sigs) |->
        IF sigs[i].c = c THEN [sigs[i] EXCEPT !.stale = TRUE] ELSE sigs[i]]

DeleteCollection ==
    \E c \in Collections :
        /\ ops < MaxOps
        /\ Len(signals) + 2 <= MaxSignals
        /\ db' = drop_collection(get_collection(db, c), c)
        /\ signals' = MarkStale(signals \o <<Watch(c), Unwatch(c)>>, c)
        /\ wstale' = [wstale EXCEPT
                        ![c] = @ \/ worker[c] \in {"spawned", "waiting", "busy"}]
        /\ req' = IF req.active /\ req.c = c
                  THEN [req EXCEPT !.stale = TRUE] ELSE req
        /\ last' = [op |-> "delete_collection", c |-> c, res |-> Ok(c)]
        /\ shadow' = [shadow EXCEPT ![c] = EmptyMap]
        /\ ops' = ops + 1
        /\ UNCHANGED <<sup, watching, chan, worker, event, coldwrite>>
        /\ UNCHANGED searchVars
        /\ UNCHANGED <<mux, down, pureVars>>

(***************************************************************************)
(* Indexer supervisor (indexer.rs).                                        *)
(***************************************************************************)
\* Indexer::initialize, then the drain at the head of Indexer::run
SupStart ==
    /\ sup = "starting"
    /\ sup' = "running"
    /\ watching' = list_collections(db)
    /\ mux' = list_collections(db)
    /\ worker' = [c \in Collections |->
                    IF c \in list_collections(db) THEN "init" ELSE worker[c]]
    /\ signals' = <<>>
    /\ UNCHANGED <<db, chan, wstale, event>>
    /\ UNCHANGED <<apiVars, searchVars>>
    /\ UNCHANGED <<down, pureVars>>

\* Shutdown is sent to every sender of mux
ShutdownFanOut(ch) ==
    [c \in Collections |-> IF c \in mux THEN Append(ch[c], "Shutdown") ELSE ch[c]]

\* the Watch arm: a worker is started unless watching holds the name
StartsWorkerOnEveryWatch(sig, w) == sig.type = "Watch"

StartsWorker(sig, w) == sig.type = "Watch" /\ sig.c \notin w

\* one signal received by the loop of Indexer::run; Shutdown returns
SupRecv ==
    /\ sup = "running"
    /\ signals # <<>>
    /\ LET sig == Head(signals)
       IN  /\ signals' = Tail(signals)
           /\ sup' = IF sig.type = "Shutdown" THEN "exited" ELSE sup
           /\ IF StartsWorker(sig, watching)
              THEN /\ watching' = watching \cup {sig.c}
                   /\ chan' = [chan EXCEPT ![sig.c] = <<>>]
                   /\ worker' = [worker EXCEPT ![sig.c] = "spawned"]
                   /\ wstale' = [wstale EXCEPT ![sig.c] = sig.stale]
              ELSE IF sig.type = "Unwatch" /\ sig.c \in watching
              THEN /\ chan' = [chan EXCEPT ![sig.c] = Append(@, "Unwatch")]
                   /\ UNCHANGED <<watching, worker, wstale>>
              ELSE IF sig.type = "Shutdown"
              THEN /\ chan' = ShutdownFanOut(chan)
                   /\ UNCHANGED <<watching, worker, wstale>>
              ELSE UNCHANGED <<watching, chan, worker, wstale>>
    /\ UNCHANGED <<db, event>>
    /\ UNCHANGED <<apiVars, searchVars>>
    /\ UNCHANGED <<mux, down, pureVars>>

(***************************************************************************)
(* Collection worker (CollectionIndexer::run).                             *)
(***************************************************************************)
\* the task spawned by Indexer::initialize: get_collection, then spawn run
WorkerInit ==
    \E c \in Collections :
        /\ worker[c] = "init"
        \* the cap on the queue applies while the supervisor drains it
        /\ Len(signals) < MaxSignals \/ sup = "exited"
        /\ db' = get_collection(db, c)
        /\ signals' = Append(signals, Watch(c))
        /\ worker' = [worker EXCEPT ![c] = "spawned"]
        /\ wstale' = [wstale EXCEPT ![c] = FALSE]
        /\ UNCHANGED <<sup, watching, chan, event>>
        /\ UNCHANGED <<apiVars, searchVars>>
        /\ UNCHANGED <<mux, down, pureVars>>

\* the first poll of the select: watch_prefix subscribes to the data tree
WorkerSubscribe ==
    \E c \in Collections :
        /\ worker[c] = "spawned"
        /\ worker' = [worker EXCEPT ![c] = "waiting"]
        /\ UNCHANGED <<db, signals, sup, watching, chan, wstale, event>>
        /\ UNCHANGED <<apiVars, searchVars>>
        /\ UNCHANGED <<mux, down, pureVars>>

\* the event branch with the error of process_event returned by `?`
WorkerProcessReturnsError ==
    \E c \in Collections :
        /\ worker[c] = "busy"
        /\ db' = IF wstale[c] THEN db ELSE process_event(db, c, event[c].v).db
        /\ worker' = [worker EXCEPT
                        ![c] = IF ~wstale[c] /\ ~process_event(db, c, event[c].v).res.ok
                               THEN "exited" ELSE "waiting"]
        /\ event' = [event EXCEPT ![c] = None]
        /\ UNCHANGED <<signals, sup, watching, chan, wstale>>
        /\ UNCHANGED <<apiVars, searchVars>>
        /\ UNCHANGED <<mux, down, pureVars>>

\* the event branch: process_event, whose error is logged, then the next
\* loop iteration subscribes again
WorkerProcess ==
    \E c \in Collections :
        /\ worker[c] = "busy"
        /\ db' = IF wstale[c] THEN db ELSE process_event(db, c, event[c].v).db
        /\ worker' = [worker EXCEPT ![c] = "waiting"]
        /\ event' = [event EXCEPT ![c] = None]
        /\ UNCHANGED <<signals, sup, watching, chan, wstale>>
        /\ UNCHANGED <<apiVars, searchVars>>
        /\ UNCHANGED <<mux, down, pureVars>>

\* the control branch: Unwatch breaks the loop, Shutdown returns
WorkerControl ==
    \E c \in Collections :
        /\ Running(c)
        /\ chan[c] # <<>>
        /\ chan' = [chan EXCEPT ![c] = Tail(@)]
        /\ IF Head(chan[c]) \in {"Unwatch", "Shutdown"}
           THEN /\ worker' = [worker EXCEPT ![c] = "exited"]
                /\ event' = [event EXCEPT ![c] = None]
           ELSE /\ worker' = [worker EXCEPT ![c] = "waiting"]
                /\ event' = [event EXCEPT ![c] = None]
        /\ UNCHANGED <<db, signals, sup, watching, wstale>>
        /\ UNCHANGED <<apiVars, searchVars>>
        /\ UNCHANGED <<mux, down, pureVars>>

Init == InitSystem /\ NoSearch /\ NoPure /\ config = DefaultConfig

Next ==
    \/ ApiPostObject
    \/ ApiPutObject
    \/ ApiUploadMetadata
    \/ ApiDeleteObject
    \/ ApiHeadObject
    \/ DeleteCollection
    \/ SupStart
    \/ SupRecv
    \/ WorkerInit
    \/ WorkerSubscribe
    \/ WorkerProcess
    \/ WorkerControl

Spec == Init /\ [][Next]_vars

(***************************************************************************)
(* Shutdown (lib.rs): the fairing sends Shutdown on the Backend's channel. *)
(* The supervisor and the workers run as tokio tasks, each scheduled       *)
(* whenever it can make a step.                                            *)
(***************************************************************************)
\* ShtudownFairing::on_shutdown
OnShutdown ==
    /\ ~down
    /\ down' = TRUE
    /\ signals' = Append(signals, Shutdown)
    /\ UNCHANGED <<db, sup, watching, chan, worker, wstale, event>>
    /\ UNCHANGED <<apiVars, searchVars>>
    /\ UNCHANGED <<mux, pureVars>>

\* Backend::open on a fresh directory or on one that holds collection c1
InitShutdown ==
    /\ db \in {EmptyMap, get_collection(EmptyMap, "c1")}
    /\ IdleSystem
    /\ NoSearch
    /\ NoPure
    /\ config = DefaultConfig

NextShutdown ==
    \/ OnShutdown
    \/ ApiHeadObject
    \/ SupStart
    \/ SupRecv
    \/ WorkerInit
    \/ WorkerSubscribe
    \/ WorkerControl

SpecShutdown ==
    /\ InitShutdown
    /\ [][NextShutdown]_vars
    /\ WF_vars(SupStart)
    /\ WF_vars(SupRecv)
    /\ WF_vars(WorkerInit)
    /\ WF_vars(WorkerSubscribe)
    /\ WF_vars(WorkerControl)

(***************************************************************************)
(* The index transactions alone: upsert and downsert called, as the worker *)
(* calls them, on the forward and the reverse tree of collection c1.       *)
(***************************************************************************)
\* upsert(tree, label string, ObjectRef)
IndexUpsert ==
    \E label \in Labels, n \in IndexNames, fwd \in BOOLEAN :
        LET t == IF fwd THEN FwdTree("c1") ELSE RevTree("c1")
            key == IF fwd THEN to_fwd(label) ELSE to_rev(label)
            or == ObjectRefNew("c1", n)
            r == upsert(db[t], key, or)
        IN  /\ ops < MaxIndexCalls
            /\ Len(PostingAt(db[t], key)) < MaxPosting
            /\ db' = [db EXCEPT ![t] = r.tree]
            /\ last' = [op |-> "upsert", tree |-> t, key |-> key, or |-> or,
                        res |-> r.res]
            /\ ops' = ops + 1
            /\ UNCHANGED <<req, shadow, coldwrite>>
            /\ UNCHANGED <<indexerVars, searchVars>>
            /\ UNCHANGED <<mux, down, pureVars>>

\* downsert(tree, label string, ObjectRef)
IndexDownsert ==
    \E label \in Labels, n \in IndexNames, fwd \in BOOLEAN :
        LET t == IF fwd THEN FwdTree("c1") ELSE RevTree("c1")
            key == IF fwd THEN to_fwd(label) ELSE to_rev(label)
            or == ObjectRefNew("c1", n)
            r == downsert(db[t], key, or)
        IN  /\ ops < MaxIndexCalls
            /\ db' = [db EXCEPT ![t] = r.tree]
            /\ last' = [op |-> "downsert", tree |-> t, key |-> key, or |-> or,
                        res |-> r.res]
            /\ ops' = ops + 1
            /\ UNCHANGED <<req, shadow, coldwrite>>
            /\ UNCHANGED <<indexerVars, searchVars>>
            /\ UNCHANGED <<mux, down, pureVars>>

InitIndex ==
    /\ db = get_collection(EmptyMap, "c1")
    /\ IdleSystem
    /\ NoSearch
    /\ NoPure
    /\ config = DefaultConfig

NextIndex == IndexUpsert \/ IndexDownsert

SpecIndex == InitIndex /\ [][NextIndex]_vars

(***************************************************************************)
(* The label loop of process_event with the storage able to fail: every    *)
(* upsert and downsert is one sled transaction whose error `?` returns     *)
(* from process_event; run logs the error and takes the next event.  The   *)
(* metadata is taken as decoded; fault numbers the transaction of the      *)
(* event that sled aborts with a storage error (0: none).                  *)
(***************************************************************************)
\* one transaction of the loop; an aborted transaction leaves the tree
Transact(t, key, or, insert, aborted) ==
    IF aborted THEN [res |-> Err("SledTxError"), tree |-> t]
    ELSE IF insert THEN upsert(t, key, or)
    ELSE downsert(t, key, or)

RECURSIVE ForLabelsFaulty(_, _, _, _, _, _)
ForLabelsFaulty(d, c, labels, or, insert, fault) ==
    IF labels = {}
    THEN [res |-> Ok("unit"), db |-> d]
    ELSE LET label == CHOOSE l \in labels : TRUE
             f == Transact(d[FwdTree(c)], to_fwd(label), or, insert, fault = 1)
             d1 == [d EXCEPT ![FwdTree(c)] = f.tree]
             r == Transact(d1[RevTree(c)], to_rev(label), or, insert, fault = 2)
             d2 == [d1 EXCEPT ![RevTree(c)] = r.tree]
         IN  IF ~f.res.ok THEN [res |-> f.res, db |-> d]
             ELSE IF ~r.res.ok THEN [res |-> r.res, db |-> d1]
             ELSE ForLabelsFaulty(d2, c, labels \ {label}, or, insert,
                                  IF fault = 0 THEN 0 ELSE fault - 2)

EventLabelSets == SUBSET Labels \ {{}}
Faults == 0..(2 * MaxEventLabels)

\* the Insert branch from the loop on
EventInsert ==
    \E labels \in EventLabelSets, n \in IndexNames, fault \in Faults :
        LET or == ObjectRefNew("c1", n)
            r == ForLabelsFaulty(db, "c1", labels, or, TRUE, fault)
        IN  /\ ops < MaxEvents
            /\ Cardinality(labels) <= MaxEventLabels
            /\ \A l \in labels :
                 Len(PostingAt(db[FwdTree("c1")], to_fwd(l))) < MaxPosting
            /\ db' = r.db
            /\ last' = [op |-> "insert_event", labels |-> labels, or |-> or,
                        fault |-> fault, res |-> r.res]
            /\ ops' = ops + 1
            /\ UNCHANGED <<req, shadow, coldwrite>>
            /\ UNCHANGED <<indexerVars, searchVars>>
            /\ UNCHANGED <<mux, down, pureVars>>

\* the Remove branch from the loop on
EventRemove ==
    \E labels \in EventLabelSets, n \in IndexNames, fault \in Faults :
        LET or == ObjectRefNew("c1", n)
            r == ForLabelsFaulty(db, "c1", labels, or, FALSE, fault)
        IN  /\ ops < MaxEvents
            /\ Cardinality(labels) <= MaxEventLabels
            /\ db' = r.db
            /\ last' = [op |-> "remove_event", labels |-> labels, or |-> or,
                        fault |-> fault, res |-> r.res]
            /\ ops' = ops + 1
            /\ UNCHANGED <<req, shadow, coldwrite>>
            /\ UNCHANGED <<indexerVars, searchVars>>
            /\ UNCHANGED <<mux, down, pureVars>>

NextEvent == EventInsert \/ EventRemove

SpecEvent == InitIndex /\ [][NextEvent]_vars

(***************************************************************************)
(* Search (search/search.rs): perform_search and the tasks it spawns, on a *)
(* store that does not change while the search runs.                       *)
(***************************************************************************)
Include(l) == [kind |-> "Include", label |-> l]
Exclude(l) == [kind |-> "Exclude", label |-> l]
SearchLabels == {Include(L1), Include(L3), Exclude(L1), Exclude(L3)}
SeqsUpTo(S, n) == UNION {[1..k -> S] : k \in 0..n}
SearchRequests ==
    [collection : Collections, labels : SeqsUpTo(SearchLabels, MaxSearchLabels)]

Range(f) == {f[i] : i \in DOMAIN f}

\* Collection::search_label: the ObjectRefs inserted into the target set
search_label(d, c, label) ==
    LET got == tree_get(d[FwdTree(c)], to_fwd(label))
    IN  IF got.some
        THEN LET objects == from_object(got.v)
             IN  IF objects.ok THEN Ok(Range(objects.val)) ELSE objects
        ELSE Ok({})

\* the end of perform_search: includes minus excludes, each with its metadata
search_response_all_without_includes(d, c, inc, exc) ==
    LET results == IF inc = {}
                   THEN {ObjectRefNew(c, n) : n \in DOMAIN d[DataTree(c)]}
                   ELSE inc \ exc
        meta == [o \in results |-> get_object_metadata(d, c, o.name)]
    IN  IF \E o \in results : ~meta[o].ok
        THEN meta[CHOOSE o \in results : ~meta[o].ok]
        ELSE Ok({[object |-> o, meta |-> meta[o].val] : o \in results})

search_response(d, c, inc, exc) ==
    LET results == inc \ exc
        meta == [o \in results |-> get_object_metadata(d, c, o.name)]
    IN  IF \E o \in results : ~meta[o].ok
        THEN meta[CHOOSE o \in results : ~meta[o].ok]
        ELSE Ok({[object |-> o, meta |-> meta[o].val] : o \in results})

\* Arc::strong_count: perform_search holds one reference; a task holds both
\* until search_label returns, which drops the target, and the other set
\* until the task ends
HoldsIncludes(i) ==
    \/ tasks[i] = "spawned"
    \/ tasks[i] = "returned" /\ sreq.labels[i].kind = "Exclude"
\* a task that captured only the set it inserts into
HoldsOnlyTargetExcludes(i) ==
    tasks[i] = "spawned" /\ sreq.labels[i].kind = "Exclude"

HoldsExcludes(i) ==
    \/ tasks[i] = "spawned"
    \/ tasks[i] = "returned" /\ sreq.labels[i].kind = "Include"
StrongIncludes == 1 + Cardinality({i \in DOMAIN tasks : HoldsIncludes(i)})
StrongExcludes == 1 + Cardinality({i \in DOMAIN tasks : HoldsExcludes(i)})
\* the condition of the wait loop
StillWaiting == StrongIncludes > 1 /\ StrongExcludes > 1

\* perform_search up to the spawn loop
SearchStart ==
    \E r \in SearchRequests :
        /\ spc = "idle"
        /\ Len(signals) < MaxSignals
        /\ db' = get_collection(db, r.collection)
        /\ signals' = Append(signals, Watch(r.collection))
        /\ sreq' = [collection |-> r.collection, labels |-> r.labels,
                    existed |-> r.collection \in list_collections(db)]
        /\ spc' = IF r.labels = <<>> THEN "waiting" ELSE "spawning"
        /\ tasks' = <<>>
        /\ includes' = {}
        /\ excludes' = {}
        /\ clock' = 0
        /\ UNCHANGED <<sup, watching, chan, worker, wstale, event>>
        /\ UNCHANGED <<apiVars, config, sresult>>
        /\ UNCHANGED <<mux, down, pureVars>>

\* one iteration of the spawn loop: tokio::task::spawn for the next label
SearchSpawn ==
    /\ spc = "spawning"
    /\ tasks' = Append(tasks, "spawned")
    /\ spc' = IF Len(tasks') = Len(sreq.labels) THEN "waiting" ELSE "spawning"
    /\ UNCHANGED <<db, indexerVars, apiVars>>
    /\ UNCHANGED <<config, sreq, includes, excludes, sresult, clock>>
    /\ UNCHANGED <<mux, down, pureVars>>

\* a spawned task runs search_label to its return
TaskSearchLabel ==
    \E i \in DOMAIN tasks :
        LET l == sreq.labels[i]
            found == search_label(db, sreq.collection, l.label)
            objects == IF found.ok THEN found.val ELSE {}
        IN  /\ tasks[i] = "spawned"
            /\ tasks' = [tasks EXCEPT ![i] = "returned"]
            /\ includes' = IF l.kind = "Include" THEN includes \cup objects
                           ELSE includes
            /\ excludes' = IF l.kind = "Exclude" THEN excludes \cup objects
                           ELSE excludes
            /\ UNCHANGED <<db, indexerVars, apiVars>>
            /\ UNCHANGED <<config, spc, sreq, sresult, clock>>
            /\ UNCHANGED <<mux, down, pureVars>>

\* the task logs the result and ends
TaskEnd ==
    \E i \in DOMAIN tasks :
        /\ tasks[i] = "returned"
        /\ tasks' = [tasks EXCEPT ![i] = "finished"]
        /\ UNCHANGED <<db, indexerVars, apiVars>>
        /\ UNCHANGED <<config, spc, sreq, includes, excludes, sresult, clock>>
        /\ UNCHANGED <<mux, down, pureVars>>

\* the wait loop finds references outstanding and sleeps; a second passes
SearchSleep ==
    /\ spc = "waiting"
    /\ StillWaiting
    /\ clock < MaxClock
    /\ clock' = clock + 1
    /\ UNCHANGED <<db, indexerVars, apiVars>>
    /\ UNCHANGED <<config, spc, sreq, tasks, includes, excludes, sresult>>
    /\ UNCHANGED <<mux, down, pureVars>>

\* the wait loop exits and perform_search returns
SearchRespond ==
    /\ spc = "waiting"
    /\ ~StillWaiting
    /\ sresult' = search_response(db, sreq.collection, includes, excludes)
    /\ spc' = "done"
    /\ UNCHANGED <<db, indexerVars, apiVars>>
    /\ UNCHANGED <<config, sreq, tasks, includes, excludes, clock>>
    /\ UNCHANGED <<mux, down, pureVars>>

\* the Db after an upload of n with the labels and the upserts of the insert
\* branch of process_event for them: the index as the worker's transactions
\* write it
Stored(d, c, n, object, labels) ==
    LET d1 == put_object(get_collection(d, c), c, n, object, TRUE).db
        d2 == put_object_metadata(d1, c, n, MetadataOf(labels))
    IN  ForLabels(d2, c, labels, ObjectRefNew(c, n), TRUE).db

\* the Db after the same upload as the running system leaves it: the worker
\* fails to decode the metadata and makes no index update
Unindexed(d, c, n, object, labels) ==
    LET d1 == put_object(get_collection(d, c), c, n, object, TRUE).db
    IN  put_object_metadata(d1, c, n, MetadataOf(labels))

SearchDbs ==
    {EmptyMap,
     Unindexed(EmptyMap, "c1", "a", "b1", {L1}),
     Stored(EmptyMap, "c1", "a", "b1", {L1}),
     Stored(Stored(EmptyMap, "c1", "a", "b1", {L1, L3}), "c1", "b", "b2", {L1})}

Configs ==
    [object_max_size_mb : {30}, query_concurrency : 1..MaxConcurrency,
     query_timeout_secs : 1..MaxTimeout]

InitSearch ==
    /\ db \in SearchDbs
    /\ IdleSystem
    /\ NoSearch
    /\ NoPure
    /\ config \in Configs

NextSearch ==
    \/ SearchStart
    \/ SearchSpawn
    \/ TaskSearchLabel
    \/ TaskEnd
    \/ SearchSleep
    \/ SearchRespond

SpecSearch == InitSearch /\ [][NextSearch]_vars

(***************************************************************************)
(* Uploads with the payload read (api/objects.rs): post_object and         *)
(* put_object read the body through Data::open(limit).into_bytes().  A     *)
(* payload is a sequence of MiB-sized chunks.                              *)
(***************************************************************************)
\* ByteUnit::mebibytes, in chunks
mebibytes(n) == n

\* DataStream::into_bytes on a stream opened with the limit: the bytes up
\* to the limit, as a Capped value whose completeness the handlers ignore
into_bytes(payload, limit) ==
    SubSeq(payload, 1, IF Len(payload) < limit THEN Len(payload) ELSE limit)

SizedPayloads == SeqsUpTo({"x"}, MaxObjectSize + 1)
UploadConfigs ==
    [object_max_size_mb : 1..MaxObjectSize, query_concurrency : {16},
     query_timeout_secs : {60}]

\* post_object (replace = FALSE) and put_object (replace = TRUE) up to the
\* return of Collection::put_object, the body read included
ApiUploadData ==
    \E c \in Collections, n \in Names, payload \in SizedPayloads,
       meta \in Metadatas, replace \in BOOLEAN :
        /\ ops < MaxOps
        /\ ~req.active
        /\ Len(signals) < MaxSignals
        /\ LET d1 == get_collection(db, c)
               object == into_bytes(payload, mebibytes(config.object_max_size_mb))
               r == put_object(d1, c, n, object, replace)
           IN  /\ db' = r.db
               /\ req' = IF r.res.ok
                         THEN [active |-> TRUE, c |-> c, n |-> n, meta |-> meta,
                               stale |-> FALSE]
                         ELSE NoReq
               /\ last' = [op |-> "upload", c |-> c, n |-> n,
                           payload |-> payload, res |-> r.res,
                           status |-> ServeStatus(r.res)]
        /\ signals' = Append(signals, Watch(c))
        /\ ops' = ops + 1
        /\ UNCHANGED <<sup, watching, chan, worker, wstale, event>>
        /\ UNCHANGED <<shadow, coldwrite>>
        /\ UNCHANGED searchVars
        /\ UNCHANGED <<mux, down, pureVars>>

InitUpload ==
    /\ db = EmptyMap
    /\ IdleSystem
    /\ NoSearch
    /\ NoPure
    /\ config \in UploadConfigs

NextUpload == ApiUploadData \/ ApiUploadMetadata

SpecUpload == InitUpload /\ [][NextUpload]_vars

(***************************************************************************)
(* Collection::list_objects (collection.rs) on a data tree whose keys are  *)
(* byte strings; byte 255 never occurs in valid UTF-8.                     *)
(***************************************************************************)
ListKeys ==
    {<<>>, <<97>>, <<97, 97>>, <<97, 98>>, <<98>>, <<98, 97>>, <<255>>,
     <<97, 255>>}
ListPrefixes == {<<>>, <<97>>, <<98>>, <<97, 98>>}
ListTrees ==
    {[k \in Range(q) |-> "b1"] : q \in SeqsUpTo(ListKeys, MaxKeys)}

\* the order of sled keys: lexicographic on bytes
BytesLess(a, b) ==
    \E i \in 1..(Len(a) + 1) :
        /\ \A j \in 1..(i - 1) : j <= Len(b) /\ a[j] = b[j]
        /\ i <= Len(b)
        /\ i <= Len(a) => a[i] < b[i]

starts_with(k, prefix) ==
    /\ Len(prefix) <= Len(k)
    /\ \A i \in 1..Len(prefix) : k[i] = prefix[i]

RECURSIVE Ascending(_)
Ascending(S) ==
    IF S = {} THEN <<>>
    ELSE LET m == CHOOSE x \in S : \A y \in S \ {x} : BytesLess(x, y)
         IN  <<m>> \o Ascending(S \ {m})

\* sled::Tree::scan_prefix: the keys under the prefix, in key order
scan_prefix(t, prefix) ==
    Ascending({k \in DOMAIN t : starts_with(k, prefix)})

\* String::from_utf8
from_utf8(k) ==
    IF \A i \in 1..Len(k) : k[i] < 128 THEN Ok(k) ELSE Err("Utf8Error")

list_objects_keeps_invalid(t, prefix) == Ok(scan_prefix(t, prefix))

list_objects(t, prefix) ==
    Ok(SelectSeq(scan_prefix(t, prefix), LAMBDA k : from_utf8(k).ok))

ApplyListObjects ==
    /\ pop = "none"
    /\ pop' = "list_objects"
    /\ pout' = Some(list_objects(pin.tree, pin.prefix))
    /\ UNCHANGED <<db, indexerVars, apiVars, searchVars, mux, down, pin>>

InitList ==
    /\ db = EmptyMap
    /\ IdleSystem
    /\ NoSearch
    /\ config = DefaultConfig
    /\ pin \in [tree : ListTrees, prefix : ListPrefixes]
    /\ pout = None
    /\ pop = "none"

NextList == ApplyListObjects

SpecList == InitList /\ [][NextList]_vars

(***************************************************************************)
(* Label (labels.rs) on strings taken as sequences of characters.          *)
(***************************************************************************)
LabelChars == {"a", "A", "="}
LabelStrings == SeqsUpTo(LabelChars, MaxLabelLen)

to_ascii_lowercase(str) == [i \in 1..Len(str) |-> Lower(str[i])]

\* Label::new
label_new(name, value) ==
    [name |-> to_ascii_lowercase(name), value |-> to_ascii_lowercase(value)]

\* Display for Label: "{name}={value}"
label_display(l) == l.name \o <<"=">> \o l.value

\* str::split_once: the parts before and after the first occurrence
split_once(str, ch) ==
    IF \E i \in 1..Len(str) : str[i] = ch
    THEN LET i == CHOOSE x \in 1..Len(str) :
                    str[x] = ch /\ \A y \in 1..(x - 1) : str[y] # ch
         IN  Some(<<SubSeq(str, 1, i - 1), SubSeq(str, i + 1, Len(str))>>)
    ELSE None

\* FromStr for Label
label_from_str(str) ==
    LET parts == split_once(str, "=")
    IN  IF parts.some THEN Ok(label_new(parts.v[1], parts.v[2]))
        ELSE Err("InvalidLabel")

\* Label::new(k, v), then its canonical string parsed
ApplyLabelRoundTrip ==
    /\ pop = "none"
    /\ pop' = "label_round_trip"
    /\ pout' = Some([label |-> label_new(pin.k, pin.v),
                     parsed |-> label_from_str(
                                   label_display(label_new(pin.k, pin.v)))])
    /\ UNCHANGED <<db, indexerVars, apiVars, searchVars, mux, down, pin>>

\* Label::from_str on any string
ApplyLabelFromStr ==
    /\ pop = "none"
    /\ pop' = "label_from_str"
    /\ pout' = Some(label_from_str(pin.str))
    /\ UNCHANGED <<db, indexerVars, apiVars, searchVars, mux, down, pin>>

InitLabel ==
    /\ db = EmptyMap
    /\ IdleSystem
    /\ NoSearch
    /\ config = DefaultConfig
    /\ pin \in [k : LabelStrings, v : LabelStrings, str : LabelStrings]
    /\ pout = None
    /\ pop = "none"

NextLabel == ApplyLabelRoundTrip \/ ApplyLabelFromStr

SpecLabel == InitLabel /\ [][NextLabel]_vars

(***************************************************************************)
(* ToFromMauve at the level of CBOR headers: what ciborium::into_writer    *)
(* writes for a value of a type deriving MauveObject, and what             *)
(* ciborium::from_reader makes of it.  An integer is its big-endian bytes  *)
(* without leading zeros, so u64 and u128 keep their widths.               *)
(***************************************************************************)
Positive(n) == [h |-> "Positive", v |-> n]
Text(str) == [h |-> "Text", v |-> str]
Bytes(b) == [h |-> "Bytes", v |-> b]
Array(n) == [h |-> "Array", v |-> n]
Map(n) == [h |-> "Map", v |-> n]
Tag(t) == [h |-> "Tag", v |-> t]
BIGPOS == 2

\* the serde shapes of the stored types
TStr == [t |-> "str"]
TU8 == [t |-> "u8"]
TU64 == [t |-> "u64"]
TU128 == [t |-> "u128"]
TSeq(of) == [t |-> "seq", of |-> of]
THashSet(of) == [t |-> "set", of |-> of]
TStruct(name) == [t |-> "struct", name |-> name]
Field(name, ty) == [name |-> name, ty |-> ty]

StructFields(name) ==
    CASE name = "Label" -> <<Field("name", TStr), Field("value", TStr)>>
      [] name = "ObjectRef" -> <<Field("collection", TStr), Field("name", TStr)>>
      [] name = "Metadata" ->
           <<Field("content_type", TStr), Field("content_encoding", TStr),
             Field("content_language", TStr), Field("size", TU64),
             Field("labels", THashSet(TStruct("Label"))),
             Field("offset_map", TStr)>>
      [] name = "TestObject" ->
           <<Field("onekb", TSeq(TU8)), Field("s", TStr), Field("x", TU128)>>

\* the type behind each derive(MauveObject); ObjectRefs is a newtype struct
MauveType(name) ==
    IF name = "ObjectRefs" THEN TSeq(TStruct("ObjectRef")) ELSE TStruct(name)

Rep(b, n) == [i \in 1..n |-> b]
U64Bytes == 8
U128Bytes == 16

RECURSIVE StripZeros(_)
StripZeros(b) ==
    IF b # <<>> /\ Head(b) = 0 THEN StripZeros(Tail(b)) ELSE b

\* a u128 that still fits an u64 is written as an integer, otherwise as a bignum
ser_u128_truncates(n) ==
    <<Positive(IF Len(n) <= U64Bytes THEN n
               ELSE StripZeros(SubSeq(n, Len(n) - U64Bytes + 1, Len(n))))>>

ser_u128(n) ==
    IF Len(n) <= U64Bytes THEN <<Positive(n)>>
    ELSE <<Tag(BIGPOS), Bytes(StripZeros(n))>>

RECURSIVE ser_value(_, _), ser_items(_, _), ser_fields(_, _)
\* Serialize: x holds a HashSet as the sequence its iterator yields
ser_value(ty, x) ==
    CASE ty.t = "str" -> <<Text(x)>>
      [] ty.t \in {"u8", "u64"} -> <<Positive(x)>>
      [] ty.t = "u128" -> ser_u128(x)
      [] ty.t \in {"seq", "set"} -> <<Array(Len(x))>> \o ser_items(ty.of, x)
      [] ty.t = "struct" ->
           <<Map(Len(StructFields(ty.name)))>> \o ser_fields(StructFields(ty.name), x)

ser_items(ty, xs) ==
    IF xs = <<>> THEN <<>> ELSE ser_value(ty, Head(xs)) \o ser_items(ty, Tail(xs))

ser_fields(fields, x) ==
    IF fields = <<>> THEN <<>>
    ELSE <<Text(Head(fields).name)>> \o ser_value(Head(fields).ty, x[Head(fields).name])
           \o ser_fields(Tail(fields), x)

DeFail == [ok |-> FALSE]
DeOk(v, rest) == [ok |-> TRUE, val |-> v, rest |-> rest]

\* Deserializer::integer: an integer header, or a bignum tag with its bytes
de_integer(b, width) ==
    LET got == IF b # <<>> /\ Head(b).h = "Positive" THEN DeOk(Head(b).v, Tail(b))
               ELSE IF Len(b) >= 2 /\ b[1] = Tag(BIGPOS) /\ b[2].h = "Bytes"
                    THEN DeOk(StripZeros(b[2].v), Tail(Tail(b)))
                    ELSE DeFail
    IN  IF got.ok /\ Len(got.val) <= width THEN got ELSE DeFail

FieldNamed(fields, name) ==
    CHOOSE i \in 1..Len(fields) : fields[i].name = name

RECURSIVE de_value(_, _), de_items(_, _, _, _), de_fields(_, _, _, _)
\* Deserialize: the value read and the headers left
de_value(ty, b) ==
    CASE ty.t = "str" ->
           IF b # <<>> /\ Head(b).h = "Text" THEN DeOk(Head(b).v, Tail(b)) ELSE DeFail
      [] ty.t = "u8" -> de_integer(b, 1)
      [] ty.t = "u64" -> de_integer(b, U64Bytes)
      [] ty.t = "u128" -> de_integer(b, U128Bytes)
      [] ty.t \in {"seq", "set"} ->
           IF b # <<>> /\ Head(b).h = "Array"
           THEN LET got == de_items(ty.of, Head(b).v, Tail(b), <<>>)
                IN  IF got.ok /\ ty.t = "set"
                    THEN DeOk({got.val[i] : i \in 1..Len(got.val)}, got.rest)
                    ELSE got
           ELSE DeFail
      [] ty.t = "struct" ->
           IF b # <<>> /\ Head(b).h = "Map"
           THEN LET got == de_fields(StructFields(ty.name), Head(b).v, Tail(b), EmptyMap)
                IN  IF got.ok
                       /\ DOMAIN got.val =
                            {StructFields(ty.name)[i].name : i \in 1..Len(StructFields(ty.name))}
                    THEN got ELSE DeFail
           ELSE DeFail

de_items(ty, n, b, acc) ==
    IF n = 0 THEN DeOk(acc, b)
    ELSE LET got == de_value(ty, b)
         IN  IF got.ok THEN de_items(ty, n - 1, got.rest, Append(acc, got.val))
             ELSE DeFail

\* the visitor of a derived struct: fields by name, each at most once
de_fields(fields, n, b, acc) ==
    IF n = 0 THEN DeOk(acc, b)
    ELSE IF b # <<>> /\ Head(b).h = "Text"
            /\ (\E i \in 1..Len(fields) : fields[i].name = Head(b).v)
            /\ Head(b).v \notin DOMAIN acc
         THEN LET name == Head(b).v
                  got == de_value(fields[FieldNamed(fields, name)].ty, Tail(b))
              IN  IF got.ok
                  THEN de_fields(fields, n - 1, got.rest, acc @@ (name :> got.val))
                  ELSE DeFail
         ELSE DeFail

\* to_object of the derive: ciborium::into_writer
into_writer(name, x) == Ok(ser_value(MauveType(name), x))

\* from_object of the derive: ciborium::from_reader
from_reader(name, b) ==
    LET got == de_value(MauveType(name), b)
    IN  IF got.ok THEN Ok(got.val) ELSE Err("CborError")

\* the values given to the codec
U128s ==
    {<<>>, <<1>>, Rep(255, U64Bytes), <<1>> \o Rep(0, U64Bytes), Rep(255, U128Bytes)}
CodecMetadatas ==
    [content_type : {"", "text/plain"}, content_encoding : {""},
     content_language : {""}, size : {<<>>, <<1, 0>>},
     labels : SUBSET Labels, offset_map : {""}]
CodecObjectRefs ==
    SeqsUpTo({ObjectRefNew(c, "a") : c \in Collections}, MaxVecLen)
CodecTestObjects ==
    [onekb : SeqsUpTo({<<>>, <<255>>}, MaxVecLen), s : {"", "1"}, x : U128s]

\* the sequences a HashSet iterator can yield
IterOrders(S) ==
    {q \in [1..Cardinality(S) -> S] : {q[i] : i \in 1..Cardinality(S)} = S}

\* x.to_object(), then from_object on the bytes
ApplyObjectRoundTrip ==
    /\ pop = "none"
    /\ pop' = "object_round_trip"
    /\ \E view \in IF pin.ty = "Metadata"
                   THEN {[pin.x EXCEPT !.labels = q] : q \in IterOrders(pin.x.labels)}
                   ELSE {pin.x} :
         LET bytes == into_writer(pin.ty, view)
         IN  pout' = Some(IF bytes.ok THEN from_reader(pin.ty, bytes.val) ELSE bytes)
    /\ UNCHANGED <<db, indexerVars, apiVars, searchVars, mux, down, pin>>

InitCodec ==
    /\ db = EmptyMap
    /\ IdleSystem
    /\ NoSearch
    /\ config = DefaultConfig
    /\ \/ pin \in [ty : {"Metadata"}, x : CodecMetadatas]
       \/ pin \in [ty : {"ObjectRefs"}, x : CodecObjectRefs]
       \/ pin \in [ty : {"TestObject"}, x : CodecTestObjects]
    /\ pout = None
    /\ pop = "none"

NextCodec == ApplyObjectRoundTrip

SpecCodec == InitCodec /\ [][NextCodec]_vars

(***************************************************************************)
(* The x-mauve-labels header (meta.rs): written by the responder of        *)
(* ObjectWithMetadata, read by Metadata::try_from on a request.            *)
(***************************************************************************)
\* Label::to_fwd on characters
label_to_fwd(l) == l.name \o <<"=">> \o l.value

RECURSIVE trim_end_matches(_, _)
trim_end_matches(str, ch) ==
    IF str # <<>> /\ str[Len(str)] = ch
    THEN trim_end_matches(SubSeq(str, 1, Len(str) - 1), ch)
    ELSE str

\* str::split: the segments between the occurrences of ch
RECURSIVE split(_, _)
split(str, ch) ==
    LET parts == split_once(str, ch)
    IN  IF parts.some THEN <<parts.v[1]>> \o split(parts.v[2], ch) ELSE <<str>>

RECURSIVE push_labels(_)
\* the loop of the responder: every label pushed, nothing between two labels
push_labels(iter) ==
    IF iter = <<>> THEN <<>> ELSE label_to_fwd(Head(iter)) \o push_labels(Tail(iter))

\* the value of x-mauve-labels in the response, for one iteration of the set
respond_to_labels(iter) == trim_end_matches(push_labels(iter), ",")

\* the "X-MAUVE-LABELS" arm of Metadata::try_from
try_from_labels(header) ==
    LET segments == split(header, ",")
    IN  {label_new(split_once(segments[i], "=").v[1], split_once(segments[i], "=").v[2]) :
           i \in {j \in 1..Len(segments) : split_once(segments[j], "=").some}}

HeaderStrings == SeqsUpTo({"a", "b"}, 1)
HeaderLabels == {label_new(k, v) : k \in HeaderStrings, v \in HeaderStrings}
HeaderLabelSets == {S \in SUBSET HeaderLabels : Cardinality(S) <= MaxHeaderLabels}

\* the header of a response carrying pin.labels, read back as a request header
ApplyHeaderRoundTrip ==
    /\ pop = "none"
    /\ pop' = "header_round_trip"
    /\ \E iter \in IterOrders(pin.labels) :
         pout' = Some([header |-> respond_to_labels(iter),
                       labels |-> try_from_labels(respond_to_labels(iter))])
    /\ UNCHANGED <<db, indexerVars, apiVars, searchVars, mux, down, pin>>

InitHeader ==
    /\ db = EmptyMap
    /\ IdleSystem
    /\ NoSearch
    /\ config = DefaultConfig
    /\ pin \in [labels : HeaderLabelSets]
    /\ pout = None
    /\ pop = "none"

NextHeader == ApplyHeaderRoundTrip

SpecHeader == InitHeader /\ [][NextHeader]_vars

(***************************************************************************)
(* The /v1/collections routes as served: api/collections.rs declares the   *)
(* handlers, mauve_rocket (lib.rs) mounts some of them, and a request that *)
(* matches no mounted route is answered by Rocket's 404 catcher.           *)
(***************************************************************************)
\* the route attribute of each handler of api/collections.rs
CollectionRoutes ==
    {[handler |-> "list_collections", method |-> "GET", path |-> "/"],
     [handler |-> "list_objects", method |-> "GET", path |-> "/<collection>?<prefix>"],
     [handler |-> "delete_collection", method |-> "DELETE", path |-> "/<collection>"]}

\* .mount("/v1/collections", routes![...]) of mauve_rocket
MountedCollectionRoutes == {"list_collections", "list_objects"}

\* the handler Rocket routes a request under /v1/collections to
route(method, path) ==
    LET matching == {r \in CollectionRoutes :
                       /\ r.handler \in MountedCollectionRoutes
                       /\ r.method = method
                       /\ r.path = path}
    IN  IF matching = {} THEN None
        ELSE Some((CHOOSE r \in matching : TRUE).handler)

NotFound == 404

\* GET /v1/collections/
HttpListCollections ==
    /\ ops < MaxOps
    /\ last' = IF route("GET", "/").some
               THEN [op |-> "list_collections", c |-> "", status |-> 200,
                     body |-> list_collections(db)]
               ELSE [op |-> "list_collections", c |-> "", status |-> NotFound,
                     body |-> {}]
    /\ ops' = ops + 1
    /\ UNCHANGED <<db, signals, sup, watching, chan, worker, wstale, event>>
    /\ UNCHANGED <<req, shadow, coldwrite>>
    /\ UNCHANGED searchVars
    /\ UNCHANGED <<mux, down, pureVars>>

\* GET /v1/collections/<c>?prefix= : get_collection, then the keys of the
\* data tree (all of them under the empty prefix)
HttpListObjects ==
    \E c \in Collections :
        /\ ops < MaxOps
        /\ Len(signals) < MaxSignals
        /\ route("GET", "/<collection>?<prefix>").some
        /\ db' = get_collection(db, c)
        /\ signals' = Append(signals, Watch(c))
        /\ last' = [op |-> "list_objects", c |-> c, status |-> 200,
                    body |-> DOMAIN get_collection(db, c)[DataTree(c)]]
        /\ ops' = ops + 1
        /\ UNCHANGED <<sup, watching, chan, worker, wstale, event>>
        /\ UNCHANGED <<req, shadow, coldwrite>>
        /\ UNCHANGED searchVars
        /\ UNCHANGED <<mux, down, pureVars>>

\* DELETE /v1/collections/<c>
HttpDeleteCollection ==
    \E c \in Collections :
        /\ ops < MaxOps
        /\ IF route("DELETE", "/<collection>").some
           THEN /\ Len(signals) + 2 <= MaxSignals
                /\ db' = drop_collection(get_collection(db, c), c)
                /\ signals' = MarkStale(signals \o <<Watch(c), Unwatch(c)>>, c)
                /\ wstale' = [wstale EXCEPT
                                ![c] = @ \/ worker[c] \in {"spawned", "waiting", "busy"}]
                /\ last' = [op |-> "delete_collection", c |-> c, status |-> 200,
                            body |-> {c}]
           ELSE /\ last' = [op |-> "delete_collection", c |-> c,
                            status |-> NotFound, body |-> {}]
                /\ UNCHANGED <<db, signals, wstale>>
        /\ ops' = ops + 1
        /\ UNCHANGED <<sup, watching, chan, worker, event>>
        /\ UNCHANGED <<req, shadow, coldwrite>>
        /\ UNCHANGED searchVars
        /\ UNCHANGED <<mux, down, pureVars>>

\* Backend::open on a directory that may hold collections already
InitRoutes ==
    /\ db \in {EmptyMap, get_collection(EmptyMap, "c1"),
               get_collection(get_collection(EmptyMap, "c1"), "c2")}
    /\ IdleSystem
    /\ NoSearch
    /\ NoPure
    /\ config = DefaultConfig

NextRoutes ==
    \/ HttpListCollections
    \/ HttpListObjects
    \/ HttpDeleteCollection
    \/ SupStart
    \/ SupRecv
    \/ WorkerInit
    \/ WorkerSubscribe

SpecRoutes == InitRoutes /\ [][NextRoutes]_vars

(***************************************************************************)
(* The request path on an indexed store: the Collection methods            *)
(* (collection.rs) called on the handle of an existing collection, and     *)
(* perform_search, on a store whose index holds postings.                  *)
(***************************************************************************)
\* the prior metadata and the Db after delete_metadata; the key is removed
\* before the old bytes are decoded
delete_metadata_drops_postings(d, c, ident) ==
    [res |-> Ok(tree_get(d[MetaTree(c)], ident)),
     db |-> [d EXCEPT ![MetaTree(c)] = tree_remove(@, ident),
                      ![FwdTree(c)] = EmptyMap,
                      ![RevTree(c)] = EmptyMap]]

delete_metadata(d, c, ident) ==
    LET old == tree_get(d[MetaTree(c)], ident)
        val == IF old.some THEN from_object(old.v) ELSE Ok(None)
    IN  [res |-> IF old.some /\ val.ok THEN Ok(Some(val.val)) ELSE val,
         db |-> [d EXCEPT ![MetaTree(c)] = tree_remove(@, ident)]]

\* Label::from_str on a key of the forward index
LabelOfKey(key) ==
    IF \E l \in Labels : to_fwd(l) = key
    THEN Ok(CHOOSE l \in Labels : to_fwd(l) = key)
    ELSE Err("InvalidLabel")

\* list_labels: every key of index_fwd parsed as a Label
list_labels(d, c) ==
    IF \A key \in DOMAIN d[FwdTree(c)] : LabelOfKey(key).ok
    THEN Ok({LabelOfKey(key).val : key \in DOMAIN d[FwdTree(c)]})
    ELSE Err("InvalidLabel")

\* str::as_bytes on the object names of the model
as_bytes(name) == IF name = "a" THEN <<97>> ELSE <<98>>

\* the data tree of c as sled holds it, keyed by bytes
DataTreeBytes(d, c) ==
    [k \in {as_bytes(n) : n \in DOMAIN d[DataTree(c)]} |->
        d[DataTree(c)][CHOOSE n \in DOMAIN d[DataTree(c)] : as_bytes(n) = k]]

Existing == list_collections(db)

CallPutObject ==
    \E c \in Existing, n \in Names, object \in Payloads, replace \in BOOLEAN :
        /\ ops < MaxCalls
        /\ db' = put_object(db, c, n, object, replace).db
        /\ last' = [op |-> "put_object", c |-> c,
                    res |-> put_object(db, c, n, object, replace).res]
        /\ ops' = ops + 1
        /\ UNCHANGED <<req, shadow, coldwrite>>
        /\ UNCHANGED <<indexerVars, searchVars>>
        /\ UNCHANGED <<mux, down, pureVars>>

CallPutObjectMetadata ==
    \E c \in Existing, n \in Names, meta \in Metadatas :
        /\ ops < MaxCalls
        /\ db' = put_object_metadata(db, c, n, meta)
        /\ last' = [op |-> "put_object_metadata", c |-> c, res |-> Ok(n)]
        /\ ops' = ops + 1
        /\ UNCHANGED <<req, shadow, coldwrite>>
        /\ UNCHANGED <<indexerVars, searchVars>>
        /\ UNCHANGED <<mux, down, pureVars>>

CallGetObject ==
    \E c \in Existing, n \in Names :
        /\ ops < MaxCalls
        /\ last' = [op |-> "get_object", c |-> c, res |-> get_object(db, c, n)]
        /\ ops' = ops + 1
        /\ UNCHANGED <<db, req, shadow, coldwrite>>
        /\ UNCHANGED <<indexerVars, searchVars>>
        /\ UNCHANGED <<mux, down, pureVars>>

CallGetObjectMetadata ==
    \E c \in Existing, n \in Names :
        /\ ops < MaxCalls
        /\ last' = [op |-> "get_object_metadata", c |-> c,
                    res |-> get_object_metadata(db, c, n)]
        /\ ops' = ops + 1
        /\ UNCHANGED <<db, req, shadow, coldwrite>>
        /\ UNCHANGED <<indexerVars, searchVars>>
        /\ UNCHANGED <<mux, down, pureVars>>

CallDeleteObject ==
    \E c \in Existing, n \in Names :
        /\ ops < MaxCalls
        /\ db' = delete_object(db, c, n).db
        /\ last' = [op |-> "delete_object", c |-> c,
                    res |-> delete_object(db, c, n).res]
        /\ ops' = ops + 1
        /\ UNCHANGED <<req, shadow, coldwrite>>
        /\ UNCHANGED <<indexerVars, searchVars>>
        /\ UNCHANGED <<mux, down, pureVars>>

CallDeleteMetadata ==
    \E c \in Existing, n \in Names :
        /\ ops < MaxCalls
        /\ db' = delete_metadata(db, c, n).db
        /\ last' = [op |-> "delete_metadata", c |-> c,
                    res |-> delete_metadata(db, c, n).res]
        /\ ops' = ops + 1
        /\ UNCHANGED <<req, shadow, coldwrite>>
        /\ UNCHANGED <<indexerVars, searchVars>>
        /\ UNCHANGED <<mux, down, pureVars>>

CallListObjects ==
    \E c \in Existing, prefix \in {<<>>, <<97>>} :
        /\ ops < MaxCalls
        /\ last' = [op |-> "list_objects", c |-> c,
                    res |-> list_objects(DataTreeBytes(db, c), prefix)]
        /\ ops' = ops + 1
        /\ UNCHANGED <<db, req, shadow, coldwrite>>
        /\ UNCHANGED <<indexerVars, searchVars>>
        /\ UNCHANGED <<mux, down, pureVars>>

CallListLabels ==
    \E c \in Existing :
        /\ ops < MaxCalls
        /\ last' = [op |-> "list_labels", c |-> c, res |-> list_labels(db, c)]
        /\ ops' = ops + 1
        /\ UNCHANGED <<db, req, shadow, coldwrite>>
        /\ UNCHANGED <<indexerVars, searchVars>>
        /\ UNCHANGED <<mux, down, pureVars>>

\* perform_search from its call to its return: get_collection, search_label
\* for every label of the request, the response
CallPerformSearch ==
    \E r \in SearchRequests :
        LET d1 == get_collection(db, r.collection)
            Found(kind) ==
                UNION {LET found == search_label(d1, r.collection, r.labels[i].label)
                       IN  IF found.ok THEN found.val ELSE {} :
                         i \in {j \in DOMAIN r.labels : r.labels[j].kind = kind}}
        IN  /\ ops < MaxCalls
            /\ Len(signals) < MaxSignals
            /\ db' = d1
            /\ signals' = Append(signals, Watch(r.collection))
            /\ last' = [op |-> "perform_search", c |-> r.collection, req |-> r,
                        res |-> search_response(d1, r.collection,
                                                Found("Include"), Found("Exclude"))]
            /\ ops' = ops + 1
            /\ UNCHANGED <<sup, watching, chan, worker, wstale, event>>
            /\ UNCHANGED <<req, shadow, coldwrite>>
            /\ UNCHANGED searchVars
            /\ UNCHANGED <<mux, down, pureVars>>

\* stores on which c1 exists, indexed or not
FrameDbs == {get_collection(d, "c1") : d \in SearchDbs}

InitFrame ==
    /\ db \in FrameDbs
    /\ IdleSystem
    /\ NoSearch
    /\ NoPure
    /\ config = DefaultConfig

NextFrame ==
    \/ CallPutObject
    \/ CallPutObjectMetadata
    \/ CallGetObject
    \/ CallGetObjectMetadata
    \/ CallDeleteObject
    \/ CallDeleteMetadata
    \/ CallListObjects
    \/ CallListLabels
    \/ CallPerformSearch

SpecFrame == InitFrame /\ [][NextFrame]_vars

(***************************************************************************)
(* The ways a Label is built (labels.rs, meta.rs, search/mod.rs) and the   *)
(* forward key search_label and the worker use for it.                     *)
(***************************************************************************)
\* derive(Deserialize) for Label: the two fields as the body gives them
label_deserialize(name, value) == [name |-> name, value |-> value]

CaseStrings == SeqsUpTo({"a", "A"}, MaxLabelLen)

\* Label::new(k, v)
BuildNew ==
    /\ pop = "none"
    /\ pop' = "Label::new"
    /\ pout' = Some({label_to_fwd(label_new(pin.k, pin.v))})
    /\ UNCHANGED <<db, indexerVars, apiVars, searchVars, mux, down, pin>>

\* "k=v".parse::<Label>()
BuildFromStr ==
    /\ pop = "none"
    /\ pop' = "Label::from_str"
    /\ pout' = Some(LET l == label_from_str(pin.k \o <<"=">> \o pin.v)
                    IN  IF l.ok THEN {label_to_fwd(l.val)} ELSE {})
    /\ UNCHANGED <<db, indexerVars, apiVars, searchVars, mux, down, pin>>

\* x-mauve-labels: k=v on a request
BuildFromHeader ==
    /\ pop = "none"
    /\ pop' = "x-mauve-labels"
    /\ pout' = Some({label_to_fwd(l) :
                       l \in try_from_labels(pin.k \o <<"=">> \o pin.v)})
    /\ UNCHANGED <<db, indexerVars, apiVars, searchVars, mux, down, pin>>

\* Json<SearchRequest> with the label {"name": k, "value": v}
BuildFromSearchRequest ==
    /\ pop = "none"
    /\ pop' = "SearchRequest"
    /\ pout' = Some({label_to_fwd(label_deserialize(pin.k, pin.v))})
    /\ UNCHANGED <<db, indexerVars, apiVars, searchVars, mux, down, pin>>

InitCase ==
    /\ db = EmptyMap
    /\ IdleSystem
    /\ NoSearch
    /\ config = DefaultConfig
    /\ pin \in [k : CaseStrings, v : CaseStrings]
    /\ pout = None
    /\ pop = "none"

NextCase ==
    \/ BuildNew
    \/ BuildFromStr
    \/ BuildFromHeader
    \/ BuildFromSearchRequest

SpecCase == InitCase /\ [][NextCase]_vars

(***************************************************************************)
(* perform_search on stores whose object names differ in letter case, the  *)
(* index written as the worker's transactions write it.                    *)
(***************************************************************************)
FoundDbs ==
    {Stored(EmptyMap, "c1", "a", "b1", {L1}),
     Stored(EmptyMap, "c1", "A", "b1", {L1}),
     Stored(Stored(EmptyMap, "c1", "a", "b1", {L1}), "c1", "A", "b2", {L1, L3}),
     Stored(Stored(EmptyMap, "c1", "A", "b1", {L3}), "c2", "a", "b2", {L1})}

InitFound ==
    /\ db \in FoundDbs
    /\ IdleSystem
    /\ NoSearch
    /\ NoPure
    /\ config = DefaultConfig

NextFound == CallPerformSearch

SpecFound == InitFound /\ [][NextFound]_vars

(***************************************************************************)
(* Collection::put_object called by handlers that run at the same time on  *)
(* one collection: the read of the old value and the insert are two sled   *)
(* operations, each atomic on its own.                                     *)
(***************************************************************************)
Callers == 1..MaxCallers
PutCalls == [n : IndexNames, object : Payloads, replace : BOOLEAN]

\* let old = self.data.get(ident)?; the early return of a create that finds
\* the name
PutObjectGet ==
    \E p \in Callers :
        LET call == pin.calls[p]
            old == tree_get(db[DataTree("c1")], call.n)
        IN  /\ pout[p].pc = "called"
            /\ pout' = [pout EXCEPT ![p] =
                          IF old.some /\ ~call.replace
                          THEN [pc |-> "returned",
                                res |-> Err("PutObjectExistsNoReplace")]
                          ELSE [pc |-> "checked", res |-> None]]
            /\ UNCHANGED <<db, indexerVars, apiVars, searchVars, mux, down, pin, pop>>

\* self.data.insert(ident, object)?; Ok(ObjectRef::new(..))
PutObjectInsert ==
    \E p \in Callers :
        LET call == pin.calls[p]
        IN  /\ pout[p].pc = "checked"
            /\ db' = [db EXCEPT ![DataTree("c1")] = tree_insert(@, call.n, call.object)]
            /\ pout' = [pout EXCEPT ![p] =
                          [pc |-> "returned", res |-> Ok(ObjectRefNew("c1", call.n))]]
            /\ UNCHANGED <<indexerVars, apiVars, searchVars, mux, down, pin, pop>>

InitRace ==
    /\ db \in {get_collection(EmptyMap, "c1"),
               put_object(get_collection(EmptyMap, "c1"), "c1", "b", "b1", TRUE).db}
    /\ IdleSystem
    /\ NoSearch
    /\ config = DefaultConfig
    /\ pin \in [calls : [Callers -> PutCalls], before : {db[DataTree("c1")]}]
    /\ pout = [p \in Callers |-> [pc |-> "called", res |-> None]]
    /\ pop = "put_object"

NextRace == PutObjectGet \/ PutObjectInsert

SpecRace == InitRace /\ [][NextRace]_vars

(***************************************************************************)
(* QueryRequest::run_inner (query/request.rs).  The result of a field's    *)
(* task, which lookup, prefix and suffix leave unimplemented, is an input: *)
(* Ok with a list of ObjectRefs, or an error.  pin holds the fields, pout  *)
(* the locals of run_inner: the iterator position, the futures in flight   *)
(* and the sets built so far.                                              *)
(***************************************************************************)
QueryRefs == {ObjectRefNew("c1", n) : n \in IndexNames}
QueryFields ==
    [op : {"Include", "Exclude"},
     res : {Ok(x) : x \in SUBSET QueryRefs} \cup {Err("Derp")}]
QueryConfigs ==
    [object_max_size_mb : {30}, query_concurrency : 1..MaxQueryConcurrency,
     query_timeout_secs : {60}]

\* an Exclude that is removed from the results but not recorded
fold_result_forgets_excludes(st, field) ==
    IF ~field.res.ok
    THEN [st EXCEPT !.errors = Append(@, field)]
    ELSE IF field.op = "Include"
    THEN [st EXCEPT !.results = @ \cup (field.res.val \ st.excludes)]
    ELSE [st EXCEPT !.results = @ \ field.res.val]

\* the body of the `while let`: one completed task folded into the sets
fold_result(st, field) ==
    IF ~field.res.ok
    THEN [st EXCEPT !.errors = Append(@, field)]
    ELSE IF field.op = "Include"
    THEN [st EXCEPT !.results = @ \cup (field.res.val \ st.excludes)]
    ELSE [st EXCEPT !.results = @ \ field.res.val,
                    !.excludes = @ \cup field.res.val]

\* `if let Some(field) = i.next()`: spawn the task of the next field
spawn_next(st, fields) ==
    IF st.next <= Len(fields)
    THEN [st EXCEPT !.futures = @ \cup {st.next}, !.next = @ + 1]
    ELSE st

\* one iteration of the loop that seeds the first tasks
QuerySeed ==
    /\ pop = "run_inner"
    /\ pout.pc = "seeding"
    /\ Cardinality(pout.futures) < config.query_concurrency
    /\ pout' = spawn_next(pout, pin.fields)
    /\ UNCHANGED <<db, indexerVars, apiVars, searchVars, mux, down, pin, pop>>

\* the condition of the seeding loop is false: on to the `while let`
QuerySeeded ==
    /\ pop = "run_inner"
    /\ pout.pc = "seeding"
    /\ Cardinality(pout.futures) >= config.query_concurrency
    /\ pout' = [pout EXCEPT !.pc = "draining"]
    /\ UNCHANGED <<db, indexerVars, apiVars, searchVars, mux, down, pin, pop>>

\* futures.next() yields a completed task, any of those in flight
QueryComplete ==
    \E f \in pout.futures :
        /\ pop = "run_inner"
        /\ pout.pc = "draining"
        /\ pout' = spawn_next(
                      fold_result([pout EXCEPT !.futures = @ \ {f},
                                               !.order = Append(@, f)],
                                  pin.fields[f]),
                      pin.fields)
        /\ UNCHANGED <<db, indexerVars, apiVars, searchVars, mux, down, pin, pop>>

\* futures.next() yields None: the final retain and the QueryResult
QueryReturn ==
    /\ pop = "run_inner"
    /\ pout.pc = "draining"
    /\ pout.futures = {}
    /\ pout' = [pout EXCEPT !.pc = "done",
                            !.results = @ \ pout.excludes]
    /\ UNCHANGED <<db, indexerVars, apiVars, searchVars, mux, down, pin, pop>>

InitQuery ==
    /\ db = EmptyMap
    /\ IdleSystem
    /\ NoSearch
    /\ config \in QueryConfigs
    /\ pin \in [fields : SeqsUpTo(QueryFields, MaxFields)]
    /\ pout = [pc |-> "seeding", next |-> 1, futures |-> {}, order |-> <<>>,
               results |-> {}, excludes |-> {}, errors |-> <<>>]
    /\ pop = "run_inner"

NextQuery == QuerySeed \/ QuerySeeded \/ QueryComplete \/ QueryReturn

SpecQuery == InitQuery /\ [][NextQuery]_vars

(***************************************************************************)
(* The Raft log store (cluster: log_store/ops.rs, storage.rs).  A LogId is *)
(* a leader term and an index and is ordered by the term first; the log is *)
(* a BTreeMap from index to entry, of which the term of the entry's log id *)
(* is kept.  pout holds the LogStoreInner, pin the last call.              *)
(***************************************************************************)
Terms == 1..MaxTerm
Indices == 0..MaxIndex
LogIds == [term : Terms, index : Indices]

\* Ord of Option<LogId>: None first, then leader id, then index
LogIdLeq(a, b) ==
    \/ ~a.some
    \/ /\ a.some /\ b.some
       /\ \/ a.v.term < b.v.term
          \/ a.v.term = b.v.term /\ a.v.index <= b.v.index

MaxOf(S) == CHOOSE x \in S : \A y \in S : y <= x

\* get_log_state with an empty log answering None
get_log_state_forgets_purged(st) ==
    LET keys == DOMAIN st.log
        back == IF keys = {} THEN None
                ELSE Some([term |-> st.log[MaxOf(keys)], index |-> MaxOf(keys)])
    IN  [last_log_id |-> back, last_purged_log_id |-> st.last_purged_log_id]

get_log_state(st) ==
    LET keys == DOMAIN st.log
        back == IF keys = {} THEN None
                ELSE Some([term |-> st.log[MaxOf(keys)], index |-> MaxOf(keys)])
    IN  [last_log_id |-> IF back.some THEN back ELSE st.last_purged_log_id,
         last_purged_log_id |-> st.last_purged_log_id]

\* append: insert of every entry under its index
log_append(st, first, n, term) ==
    [st EXCEPT !.log = [i \in first..(first + n - 1) |-> term] @@ @]

\* truncate: remove of every key of range(log_id.index..)
log_truncate(st, id) ==
    [st EXCEPT !.log = [i \in {k \in DOMAIN st.log : k < id.index} |-> st.log[i]]]

\* purge with the range ending before log_id.index
log_purge_keeps_index(st, id) ==
    [st EXCEPT !.last_purged_log_id = Some(id),
               !.log = [i \in {k \in DOMAIN st.log : k >= id.index} |-> st.log[i]]]

\* purge: last_purged_log_id, then remove of every key of range(..=index)
log_purge(st, id) ==
    [st EXCEPT !.last_purged_log_id = Some(id),
               !.log = [i \in {k \in DOMAIN st.log : k > id.index} |-> st.log[i]]]

\* the index after the last log id, at which the caller appends
AppendIndex(st) ==
    LET state == get_log_state(st)
    IN  IF state.last_log_id.some THEN state.last_log_id.v.index + 1 ELSE 0

LogAppend ==
    \E n \in 1..MaxAppend, term \in Terms :
        /\ pop = "log_store"
        /\ AppendIndex(pout) + n - 1 <= MaxIndex
        /\ pout' = log_append(pout, AppendIndex(pout), n, term)
        /\ pin' = [pin EXCEPT !.op = "append"]
        /\ UNCHANGED <<db, indexerVars, apiVars, searchVars, mux, down, pop>>

LogTruncate ==
    \E id \in LogIds :
        /\ pop = "log_store"
        /\ pout' = log_truncate(pout, id)
        /\ pin' = [pin EXCEPT !.op = "truncate"]
        /\ UNCHANGED <<db, indexerVars, apiVars, searchVars, mux, down, pop>>

\* the assert of purge panics before anything is written
LogPurge ==
    \E id \in LogIds :
        /\ pop = "log_store"
        /\ LogIdLeq(pout.last_purged_log_id, Some(id))
        /\ pout' = log_purge(pout, id)
        /\ pin' = [pin EXCEPT !.op = "purge", !.purged = Some(id)]
        /\ UNCHANGED <<db, indexerVars, apiVars, searchVars, mux, down, pop>>

LogGetState ==
    /\ pop = "log_store"
    /\ pin' = [pin EXCEPT !.op = "get_log_state", !.res = get_log_state(pout)]
    /\ UNCHANGED <<db, indexerVars, apiVars, searchVars, mux, down, pout, pop>>

\* LogStoreInner::default
InitLog ==
    /\ db = EmptyMap
    /\ IdleSystem
    /\ NoSearch
    /\ config = DefaultConfig
    /\ pin = [op |-> "none", purged |-> None,
              res |-> [last_log_id |-> None, last_purged_log_id |-> None]]
    /\ pout = [log |-> EmptyMap, last_purged_log_id |-> None]
    /\ pop = "log_store"

NextLog == LogAppend \/ LogTruncate \/ LogPurge \/ LogGetState

SpecLog == InitLog /\ [][NextLog]_vars

(***************************************************************************)
(* Claims checked on the full system (Spec).                               *)
(***************************************************************************)
\* C1: Collection CRUD.  Every put_object and delete_object returns what
\* the sequence of calls made so far requires (a create of an absent name
\* succeeds, a create of a present name fails with PutObjectExistsNoReplace,
\* a replace succeeds, a delete returns the bytes last stored), and
\* head_object / get_object agree with the bytes last stored under the name
\* (ObjectNotFound once deleted).
C1_CollectionCrud ==
    /\ last.op \in {"put_object", "delete_object"} => last.res = last.expect
    /\ \A c \in Collections :
         DataTree(c) \in tree_names(db) =>
           \A n \in Names :
             /\ head_object(db, c, n) = Ok(n \in DOMAIN shadow[c])
             /\ get_object(db, c, n) =
                  IF n \in DOMAIN shadow[c] THEN Ok(shadow[c][n])
                  ELSE Err("ObjectNotFound")

\* a delete returned the replaced bytes b2 and the name is gone
C1_Witness ==
    /\ last.op = "delete_object"
    /\ last.res = Ok(Some("b2"))
    /\ head_object(db, last.c, last.n) = Ok(FALSE)
    /\ get_object(db, last.c, last.n) = Err("ObjectNotFound")

\* requests have stopped and the supervisor has no signal left
Quiescent == ~req.active /\ signals = <<>> /\ sup = "running"

\* the worker of c ran during every write and has nothing left to process
WorkerIdle(c) ==
    /\ worker[c] = "waiting"
    /\ ~wstale[c]
    /\ chan[c] = <<>>
    /\ c \notin coldwrite

Indexed(d, c, n, label) ==
    /\ InPosting(d[FwdTree(c)], to_fwd(label), ObjectRefNew(c, n))
    /\ InPosting(d[RevTree(c)], to_rev(label), ObjectRefNew(c, n))

\* C2: index convergence.  Once requests have stopped and the worker of a
\* collection, which was running during every write, has nothing left to
\* process, every label of the stored metadata of every present object has
\* the object's ObjectRef in its forward and in its reverse posting.
C2_IndexConvergence ==
    \A c \in Collections :
        Quiescent /\ WorkerIdle(c) =>
          \A n \in DOMAIN db[DataTree(c)] :
            LET meta == get_object_metadata(db, c, n)
            IN  meta.ok => \A label \in meta.val.labels : Indexed(db, c, n, label)

\* C10: delete_collection.  When delete_collection(c) returns, none of the
\* four subtrees of c exists, list_collections does not contain c, and every
\* subtree of every other collection exists as before with the same content.
C10_DeleteCollection ==
    [][(ops' = ops + 1 /\ last'.op = "delete_collection") =>
         LET c == last'.c
         IN  /\ CollectionTrees(c) \cap tree_names(db') = {}
             /\ c \notin list_collections(db')
             /\ \A t \in tree_names(db) :
                  t[2] # c => t \in tree_names(db') /\ db'[t] = db[t]
             /\ \A t \in tree_names(db') : t \in tree_names(db)]_vars

\* a collection was deleted while another one holds an object
C10_Witness ==
    /\ last.op = "delete_collection"
    /\ CollectionTrees(last.c) \cap tree_names(db) = {}
    /\ \E d \in Collections \ {last.c} :
         /\ CollectionTrees(d) \subseteq tree_names(db)
         /\ db[DataTree(d)] # EmptyMap
         /\ db[MetaTree(d)] # EmptyMap

\* the metadata entries of c, none while the tree is not open
MetaContent(d, c) == IF MetaTree(c) \in DOMAIN d THEN d[MetaTree(c)] ELSE EmptyMap

\* C21: metadata lifecycle.  An entry of the meta subtree is created or
\* overwritten only by put_object_metadata and removed only by
\* delete_metadata or by dropping the collection; the indexer worker leaves
\* the meta subtree unchanged when it processes an Insert or a Remove event.
C21_MetadataLifecycle ==
    [][\A c \in Collections :
         MetaContent(db', c) # MetaContent(db, c) =>
           \/ req.active /\ req.c = c /\ req' = NoReq
           \/ ops' = ops + 1 /\ last' = [op |-> "delete_collection", c |-> c,
                                        res |-> Ok(c)]]_vars

\* C22: one worker per collection.  At every time at most one indexer worker
\* is running for a collection name: the supervisor starts a worker for c
\* only when no worker of c has been started before, whatever number of
\* Watch signals for c it receives (those sent by the workers started at
\* initialisation included).
C22_OneWorker ==
    [][\A c \in Collections :
         ( /\ sup = "running"
           /\ signals # <<>>
           /\ signals' = Tail(signals)
           /\ worker'[c] = "spawned"
           /\ worker[c] # "spawned" )
         => worker[c] = "none"]_vars

\* the worker of c1 was started by initialize, has sent its own Watch, and
\* the supervisor has consumed every signal: one worker of c1 is waiting
C22_Witness ==
    /\ "c1" \in mux
    /\ worker["c1"] = "waiting"
    /\ sup = "running"
    /\ signals = <<>>
    /\ ops = MaxOps

\* a step of a handler that inserts into or removes from the data tree of c
DataWrite(c) ==
    /\ ops' = ops + 1
    /\ last'.op \in {"put_object", "delete_object"}
    /\ last'.c = c
    /\ last'.op = "put_object" => last'.res.ok

\* the sled event of the write
DataEvent ==
    IF last'.op = "put_object" THEN Insert(last'.n) ELSE Remove(last'.n)

\* C26: no lost events.  While the worker of a collection is running, every
\* insert and every remove applied to the data subtree is delivered to
\* process_event (the worker holds the event of the write once the write is
\* done), also when the worker is busy processing an earlier event.
C26_NoLostEvent ==
    [][\A c \in Collections :
         (Running(c) /\ ~wstale[c] /\ DataWrite(c)) =>
           /\ worker'[c] = "busy"
           /\ event'[c] = Some(DataEvent)]_vars

\* C27: first write to a new collection.  When the only request so far was
\* a successful put_object on a collection that did not exist before, and
\* the supervisor has started the worker of that collection and the worker
\* waits with nothing left to process, every label of the stored metadata
\* of the object has the object's ObjectRef in both postings: the Insert
\* event of the first write was not missed.
FirstWrite ==
    /\ ops = 1
    /\ last.op = "put_object"
    /\ last.res.ok

C27_FirstWriteIndexed ==
    ( /\ FirstWrite
      /\ Quiescent
      /\ worker[last.c] = "waiting"
      /\ chan[last.c] = <<>> )
    => LET meta == get_object_metadata(db, last.c, last.n)
       IN  meta.ok => \A label \in meta.val.labels :
                        Indexed(db, last.c, last.n, label)

\* C28: delete then re-create.  Once put_object(n, b) has succeeded and
\* put_object_metadata(n, m) has stored m, and no later request is issued,
\* no step of the indexer changes what get_object_metadata(n) returns: m
\* stays stored while the worker processes the events of earlier requests.
Recreated ==
    /\ last.op = "put_object"
    /\ last.res.ok
    /\ ~req.active
    /\ get_object_metadata(db, last.c, last.n).ok

C28_MetadataSurvivesRecreate ==
    [][(Recreated /\ last' = last) =>
         get_object_metadata(db', last.c, last.n)
           = get_object_metadata(db, last.c, last.n)]_vars

\* C29: the watching map.  A collection name is a key of the supervisor's
\* watching map only while a worker task of that collection is alive
\* (started by initialize or by the Watch arm and not yet returned), so a
\* Watch received after the worker exited starts a new one.
WorkerAlive(c) == worker[c] \in {"init", "spawned", "waiting", "busy"}

C29_WatchingOnlyWhileAlive ==
    \A c \in watching : WorkerAlive(c)

\* C33: codec agreement.  Every value in the metadata subtree, written by
\* put_object_metadata, decodes successfully with the codec process_event
\* reads it with.
C33_CodecAgreement ==
    \A c \in Collections : \A n \in DOMAIN MetaContent(db, c) :
        bincode_deserialize(MetaContent(db, c)[n]).ok

\* the worker of c finishes an event on which process_event fails
EventFails(c) ==
    /\ worker[c] = "busy"
    /\ ~wstale[c]
    /\ ~process_event(db, c, event[c].v).res.ok
    /\ event'[c] = None
    /\ chan' = chan

\* C35: worker failure semantics.  When process_event fails for an event
\* the worker stays in its loop, waiting for the next event or control
\* signal with what process_event had written kept; a running worker ends
\* only by taking Unwatch or Shutdown from its control channel.
C35_FailureKeepsWorker ==
    [][\A c \in Collections :
         /\ EventFails(c) => worker'[c] = "waiting"
         /\ (Running(c) /\ worker'[c] = "exited") =>
              /\ chan[c] # <<>>
              /\ Head(chan[c]) \in {"Unwatch", "Shutdown"}
              /\ chan'[c] = Tail(chan[c])]_vars

\* the worker of c1, running since before the write, holds the Remove event
\* of an object whose stored metadata makes process_event fail
C35_Witness ==
    /\ worker["c1"] = "busy"
    /\ ~wstale["c1"]
    /\ event["c1"] = Some(Remove("a"))
    /\ "c1" \notin coldwrite
    /\ "a" \in DOMAIN MetaContent(db, "c1")
    /\ ~process_event(db, "c1", event["c1"].v).res.ok

\* C12: create conflict.  A POST of a name present in the data tree fails
\* with PutObjectExistsNoReplace, answered 409, and leaves the data tree and
\* the metadata tree of the collection as they were; the handler returns
\* without writing metadata.
C12_CreateConflict ==
    [][\A c \in Collections, n \in Names :
         ( /\ DataTree(c) \in tree_names(db)
           /\ n \in DOMAIN db[DataTree(c)]
           /\ \E b \in Payloads, m \in Metadatas : Upload(c, n, b, m, FALSE) )
         => /\ last'.res = Err("PutObjectExistsNoReplace")
            /\ last'.status = 409
            /\ db'[DataTree(c)] = db[DataTree(c)]
            /\ db'[MetaTree(c)] = db[MetaTree(c)]
            /\ req' = NoReq]_vars

\* a create was refused while the object keeps its bytes and its metadata
C12_Witness ==
    /\ last.op = "put_object"
    /\ last.res = Err("PutObjectExistsNoReplace")
    /\ last.status = 409
    /\ get_object(db, last.c, last.n) = Ok("b1")
    /\ get_object_metadata(db, last.c, last.n) = Ok(MetadataOf({L1}))

(***************************************************************************)
(* Claims checked on the index transactions (SpecIndex).                   *)
(***************************************************************************)
IndexTrees == {FwdTree("c1"), RevTree("c1")}
IndexRefs == {ObjectRefNew("c1", n) : n \in IndexNames}

\* C3: no posting list contains the same ObjectRef twice: in the forward and
\* in the reverse index every ObjectRef occurs at most once under a key.
C3_NoDuplicateRefs ==
    \A t \in IndexTrees : \A key \in DOMAIN db[t] : \A or \in IndexRefs :
        Occurrences(PostingAt(db[t], key), or) <= 1

\* C4: no empty posting list is stored: every key present in the forward or
\* in the reverse index has at least one ObjectRef in its posting.
C4_NoEmptyPosting ==
    \A t \in IndexTrees : \A key \in DOMAIN db[t] :
        PostingAt(db[t], key) # <<>>

\* C30: downsert removes only its target.  Every ObjectRef other than r
\* that is in the posting at the key before downsert(index, key, r) is in
\* the posting at the key after it, also when the posting holds exactly one
\* entry.
C30_DownsertRemovesOnlyTarget ==
    [][(ops' = ops + 1 /\ last'.op = "downsert") =>
         \A or \in IndexRefs \ {last'.or} :
           InPosting(db[last'.tree], last'.key, or)
             => InPosting(db'[last'.tree], last'.key, or)]_vars

(***************************************************************************)
(* Claims checked on the events of the worker (SpecEvent).                 *)
(***************************************************************************)
RefsAt(t, key) == {PostingAt(t, key)[i] : i \in 1..Len(PostingAt(t, key))}

\* C31: forward/reverse symmetry.  Whenever the worker is between events,
\* for every label the posting at index_fwd["name=value"] and the posting
\* at index_rev["value=name"] hold the same ObjectRefs, also after a
\* transaction of the event failed part-way through its labels.
C31_FwdRevSymmetry ==
    \A label \in Labels :
        RefsAt(db[FwdTree("c1")], to_fwd(label))
          = RefsAt(db[RevTree("c1")], to_rev(label))

\* C32: no stale postings.  When the worker has processed the Insert event
\* of an object without failure, the object's ObjectRef is in the forward
\* posting of a label only if the label is in the metadata the object has
\* at that event: a posting of a label the object no longer carries, left
\* by an earlier version of the object, has been removed.
C32_NoStalePosting ==
    [][(ops' = ops + 1 /\ last'.op = "insert_event" /\ last'.res.ok) =>
         \A label \in Labels :
           InPosting(db'[FwdTree("c1")], to_fwd(label), last'.or)
             => label \in last'.labels]_vars

(***************************************************************************)
(* Claims checked on the search (SpecSearch).                              *)
(***************************************************************************)
\* the labels of the stored metadata of a present object
LabelsOf(d, c, n) ==
    LET meta == get_object_metadata(d, c, n)
    IN  IF meta.ok THEN meta.val.labels ELSE {}

\* the index of c holds exactly the labels of the present objects
Converged(d, c) ==
    /\ \A n \in DOMAIN d[DataTree(c)] :
         \A label \in LabelsOf(d, c, n) : Indexed(d, c, n, label)
    /\ \A label \in Labels : \A n \in IndexNames :
         InPosting(d[FwdTree(c)], to_fwd(label), ObjectRefNew(c, n)) =>
           n \in DOMAIN d[DataTree(c)] /\ label \in LabelsOf(d, c, n)

IncludeLabels(labels) ==
    {labels[i].label : i \in {j \in DOMAIN labels : labels[j].kind = "Include"}}
ExcludeLabels(labels) ==
    {labels[i].label : i \in {j \in DOMAIN labels : labels[j].kind = "Exclude"}}

\* the objects carrying an Include label and no Exclude label
Expected(d, c, labels) ==
    {ObjectRefNew(c, n) : n \in
       {m \in DOMAIN d[DataTree(c)] :
          /\ LabelsOf(d, c, m) \cap IncludeLabels(labels) # {}
          /\ LabelsOf(d, c, m) \cap ExcludeLabels(labels) = {}}}

\* C5: search composition.  On a converged index a completed search returns
\* Ok with exactly the objects that carry at least one Include label and no
\* Exclude label, each with its stored metadata.
C5_SearchComposition ==
    spc = "done" /\ Converged(db, sreq.collection) =>
        /\ sresult.ok
        /\ {f.object : f \in sresult.val} =
             Expected(db, sreq.collection, sreq.labels)
        /\ \A f \in sresult.val :
             Ok(f.meta) = get_object_metadata(db, sreq.collection, f.object.name)

\* C6: a search whose label list is empty or holds only Exclude labels
\* returns Ok with no object.
C6_NoIncludeIsEmpty ==
    spc = "done" /\ IncludeLabels(sreq.labels) = {} => sresult = Ok({})

\* an Exclude-only search of a collection holding a labelled object returned
C6_Witness ==
    /\ spc = "done"
    /\ sreq.labels # <<>>
    /\ IncludeLabels(sreq.labels) = {}
    /\ \E n \in DOMAIN db[DataTree(sreq.collection)] :
         LabelsOf(db, sreq.collection, n) # {}
    /\ sresult = Ok({})

\* C7: search deadline.  A search still running when query_timeout_secs
\* have elapsed since it was called returns a Timeout error.
C7_SearchDeadline ==
    spc = "done" /\ clock > config.query_timeout_secs =>
        ~sresult.ok /\ sresult.err = "Timeout"

\* label tasks spawned and not yet ended
InFlight == Cardinality({i \in DOMAIN tasks : tasks[i] # "finished"})

\* C8: bounded parallelism.  At no time are more than query_concurrency
\* label lookups of a search in flight.
C8_BoundedParallelism == InFlight <= config.query_concurrency

\* the wait loop of perform_search exits
WaitLoopExits == spc = "waiting" /\ spc' = "done"

\* C34 as stated: completion barrier.  In no interleaving does the wait
\* loop exit while an Include or Exclude task is still running or not yet
\* started: when it exits every label of the request has its task and
\* every task has ended.
C34_NoTaskRunningAtExit ==
    [][WaitLoopExits =>
         /\ Len(tasks) = Len(sreq.labels)
         /\ \A i \in DOMAIN tasks : tasks[i] = "finished"]_vars

\* C34 amended: when the wait loop exits, every label of the request has
\* its task and every task has returned from search_label, so it has
\* finished inserting its posting into the shared sets; a task may still
\* be at the log statement that follows.
C34_CompletionBarrier ==
    [][WaitLoopExits =>
         /\ Len(tasks) = Len(sreq.labels)
         /\ \A i \in DOMAIN tasks : tasks[i] \in {"returned", "finished"}]_vars

\* a search with an Include and an Exclude label returned while one of its
\* tasks had not yet ended
C34_Witness ==
    /\ spc = "done"
    /\ Len(tasks) = MaxSearchLabels
    /\ \E i, j \in DOMAIN tasks :
         /\ sreq.labels[i].kind = "Include" /\ sreq.labels[j].kind = "Exclude"
         /\ tasks[i] = "returned"

\* C36: task failures.  A completed search is Ok only if every label task
\* read and decoded its posting: when search_label fails for a label of the
\* request the search fails, and the failure is not taken as an empty
\* posting.
C36_TaskFailureFailsSearch ==
    ( /\ spc = "done"
      /\ \E i \in DOMAIN sreq.labels :
           ~search_label(db, sreq.collection, sreq.labels[i].label).ok )
    => ~sresult.ok

\* C9: perform_search on a collection that does not exist fails.
C9_SearchMissingCollection ==
    spc = "done" /\ ~sreq.existed => ~sresult.ok

(***************************************************************************)
(* Claims checked on shutdown (SpecShutdown).                              *)
(***************************************************************************)
\* C11: shutdown.  Once the supervisor has handled Shutdown and returned,
\* every collection worker, whether started by initialize or by a Watch
\* signal, eventually terminates.
C11_ShutdownStopsWorkers ==
    (sup = "exited") ~> (\A c \in Collections : worker[c] \in {"none", "exited"})

\* C14: once the supervisor has exited, a call that sends on the Backend's
\* signal channel (get_collection) fails and leaves no signal in the channel.
C14_SendFailsAfterExit ==
    [][(sup = "exited" /\ ops' = ops + 1) =>
         ~last'.res.ok /\ signals' = signals]_vars

(***************************************************************************)
(* Claims checked on uploads with the payload read (SpecUpload).           *)
(***************************************************************************)
\* C13: an upload whose payload is larger than object_max_size_mb fails
\* before any storage mutation: the data tree and the metadata tree are
\* unchanged, nothing truncated is stored and no metadata write follows.
C13_OversizeUploadFails ==
    [][(ops' = ops + 1 /\ last'.op = "upload"
          /\ Len(last'.payload) > mebibytes(config.object_max_size_mb)) =>
         LET c == last'.c
             before == get_collection(db, c)
         IN  /\ ~last'.res.ok
             /\ db'[DataTree(c)] = before[DataTree(c)]
             /\ db'[MetaTree(c)] = before[MetaTree(c)]
             /\ req' = NoReq]_vars

(***************************************************************************)
(* Claims checked on list_objects (SpecList).                              *)
(***************************************************************************)
\* C15: list_objects(p) succeeds and returns exactly the valid UTF-8 keys of
\* the data tree that start with p, each once, in ascending key order.
C15_ListObjects ==
    pop = "list_objects" =>
        LET res == pout.v
            want == {k \in DOMAIN pin.tree :
                       starts_with(k, pin.prefix) /\ \A i \in 1..Len(k) : k[i] # 255}
        IN  /\ res.ok
            /\ Range(res.val) = want
            /\ Len(res.val) = Cardinality(want)
            /\ \A i, j \in 1..Len(res.val) :
                 i < j => BytesLess(res.val[i], res.val[j])

\* two keys under the prefix were listed while a non-UTF-8 key under the
\* prefix and a key outside it were left out
C15_Witness ==
    /\ pop = "list_objects"
    /\ pin.prefix # <<>>
    /\ Len(pout.v.val) = 2
    /\ \E k \in DOMAIN pin.tree :
         starts_with(k, pin.prefix) /\ ~from_utf8(k).ok

(***************************************************************************)
(* Claims checked on Label (SpecLabel).                                    *)
(***************************************************************************)
\* C16: label round-trip.  For every k and v, parsing the canonical string
\* of Label::new(k, v) gives that label; and from_str(s) fails, with
\* InvalidLabel, if and only if s contains no '='.
C16_LabelRoundTrip ==
    /\ pop = "label_round_trip" => pout.v.parsed = Ok(pout.v.label)
    /\ pop = "label_from_str" =>
         (pout.v = Err("InvalidLabel") <=> \A i \in 1..Len(pin.str) : pin.str[i] # "=")

(***************************************************************************)
(* Claims checked on the stored-value codec (SpecCodec).                   *)
(***************************************************************************)
\* C17: stored-value round-trip.  For every value x of a type deriving
\* MauveObject, from_object(to_object(x)) succeeds and equals x.
C17_ObjectRoundTrip ==
    pop = "object_round_trip" => pout.v = Ok(pin.x)

\* a Metadata of two labels and a TestObject whose x needs a bignum
C17_Witness ==
    /\ pop = "object_round_trip"
    /\ pout.v.ok
    /\ \/ pin.ty = "Metadata" /\ Cardinality(pin.x.labels) >= 2
       \/ pin.ty = "TestObject" /\ Len(pin.x.x) > U64Bytes

(***************************************************************************)
(* Claims checked on the label header (SpecHeader).                        *)
(***************************************************************************)
\* C18: label header round-trip.  The x-mauve-labels header emitted with an
\* object, parsed by the request-side header parser, yields exactly the
\* label set of the object's metadata, for one label and for two or more.
C18_HeaderRoundTrip ==
    pop = "header_round_trip" => pout.v.labels = pin.labels

(***************************************************************************)
(* Claims checked on the collection routes (SpecRoutes).                   *)
(***************************************************************************)
\* C19: HTTP collection deletion.  A DELETE /v1/collections/<c> request is
\* served by delete_collection, so that the GET /v1/collections/ that
\* follows it does not contain c.
C19_HttpDeleteCollection ==
    [][(last.op = "delete_collection" /\ last'.op = "list_collections")
         => last.c \notin last'.body]_vars

(***************************************************************************)
(* Claims checked on the request path of an indexed store (SpecFrame).     *)
(***************************************************************************)
\* the content of an index tree, empty while the tree is not open
IndexContent(d, t) == IF t \in DOMAIN d THEN d[t] ELSE EmptyMap

IndexUnchanged ==
    \A c \in Collections :
        /\ IndexContent(db', FwdTree(c)) = IndexContent(db, FwdTree(c))
        /\ IndexContent(db', RevTree(c)) = IndexContent(db, RevTree(c))

\* C20: no request-path operation (put_object, put_object_metadata,
\* get_object, get_object_metadata, delete_object, delete_metadata,
\* list_objects, list_labels, perform_search) writes or removes a key of
\* index_fwd or index_rev: every step of the request path leaves the content
\* of both index trees of every collection as it was.
C20_IndexFrame == [][IndexUnchanged]_vars

\* an object and its metadata deleted while its postings are in the index
C20_Witness ==
    /\ last.op = "delete_metadata"
    /\ last.res = Ok(Some(MetadataOf({L1})))
    /\ "a" \notin DOMAIN db[DataTree("c1")]
    /\ to_fwd(L1) \in DOMAIN db[FwdTree("c1")]

(***************************************************************************)
(* Claims checked on the construction of labels (SpecCase).                *)
(***************************************************************************)
\* C23: lowercase labels.  However a Label is built from a name k and a value
\* v (Label::new, from_str, the x-mauve-labels header, the body of a
\* SearchRequest), the forward key used for it is the key of the lowercase
\* label, so labels that differ only in letter case use the same index key.
C23_LowercaseKey ==
    pop # "none" =>
      pout.v = {to_ascii_lowercase(pin.k) \o <<"=">> \o to_ascii_lowercase(pin.v)}

(***************************************************************************)
(* Claims checked on searches over names in both letter cases (SpecFound). *)
(***************************************************************************)
\* the names of c stored with label l in their metadata and indexed under it
IndexedWith(d, c, l) ==
    {n \in DOMAIN d[DataTree(c)] :
       /\ get_object_metadata(d, c, n).ok
       /\ l \in get_object_metadata(d, c, n).val.labels
       /\ Indexed(d, c, n, l)}

\* C24: search finds indexed objects.  For an object stored under any name n,
\* in any letter case, whose metadata holds label L and which is indexed,
\* perform_search with Include(L) succeeds and returns one FoundObject for it
\* whose meta is the metadata stored under n; objects whose names differ only
\* in letter case are distinct results.
C24_SearchFindsIndexed ==
    \A l \in Labels :
        (last.op = "perform_search" /\ last.req.labels = <<Include(l)>>) =>
          LET names == IndexedWith(db, last.c, l)
          IN  /\ last.res.ok
              /\ Cardinality(last.res.val) = Cardinality(names)
              /\ \A n \in names :
                   \E found \in last.res.val :
                       found.meta = get_object_metadata(db, last.c, n).val

(***************************************************************************)
(* Claims checked on concurrent put_object calls (SpecRace).               *)
(***************************************************************************)
\* C25: per-key atomicity of create.  When two put_object(n, _, false) calls
\* for the same absent name n run at the same time and both have returned,
\* one of them succeeded, the other failed with PutObjectExistsNoReplace, and
\* the stored bytes are those of the call that succeeded.
C25_AtomicCreate ==
    \A p \in Callers, q \in Callers :
        ( /\ p # q
          /\ pin.calls[p].n = pin.calls[q].n
          /\ ~pin.calls[p].replace /\ ~pin.calls[q].replace
          /\ pin.calls[p].n \notin DOMAIN pin.before
          /\ \A x \in Callers \ {p, q} : pin.calls[x].n # pin.calls[p].n
          /\ pout[p].pc = "returned" /\ pout[q].pc = "returned" )
        => \/ /\ pout[p].res.ok
              /\ pout[q].res = Err("PutObjectExistsNoReplace")
              /\ db[DataTree("c1")][pin.calls[p].n] = pin.calls[p].object
           \/ /\ pout[q].res.ok
              /\ pout[p].res = Err("PutObjectExistsNoReplace")
              /\ db[DataTree("c1")][pin.calls[q].n] = pin.calls[q].object

(***************************************************************************)
(* Claims checked on QueryRequest::run_inner (SpecQuery).                  *)
(***************************************************************************)
\* C37: termination of run_inner.  The loop that seeds the first tasks ends
\* when the field list is exhausted, also when the request has fewer
\* fields than query_concurrency: at the head of the loop with no field
\* left, the condition of the loop is false.
C37_SeedingEnds ==
    (pout.pc = "seeding" /\ pout.next > Len(pin.fields))
    => Cardinality(pout.futures) >= config.query_concurrency

\* the flat composition: the union of all Include results minus the union
\* of all Exclude results
FlatOf(fields, op) ==
    UNION {fields[i].res.val :
             i \in {j \in DOMAIN fields : fields[j].op = op /\ fields[j].res.ok}}
FlatComposition(fields) == FlatOf(fields, "Include") \ FlatOf(fields, "Exclude")

\* C38: the incremental composition of run_inner yields, for every
\* completion order of the field tasks, the set of the flat composition.
C38_IncrementalIsFlat ==
    pout.pc = "done" => pout.results = FlatComposition(pin.fields)

\* a returned request whose later field completed first, with an Exclude
\* that removes part of what the Includes found
C38_Witness ==
    /\ pout.pc = "done"
    /\ Len(pout.order) >= 2
    /\ pout.order[1] > pout.order[2]
    /\ pout.results # {}
    /\ FlatOf(pin.fields, "Include") \cap FlatOf(pin.fields, "Exclude") # {}

(***************************************************************************)
(* Claims checked on the Raft log store (SpecLog).                         *)
(***************************************************************************)
StoredIndices == DOMAIN pout.log

\* C39: no hole.  After any sequence of append (of entries with consecutive
\* indices following the last log id), truncate and purge, the indices
\* stored in the log form one contiguous range and every stored index is
\* greater than the index of last_purged_log_id.
C39_NoHole ==
    /\ \A i, j \in StoredIndices :
         \A k \in Indices : (i < k /\ k < j) => k \in StoredIndices
    /\ pout.last_purged_log_id.some =>
         \A i \in StoredIndices : i > pout.last_purged_log_id.v.index

\* entries were purged and truncated and the log holds entries again
C39_Witness ==
    /\ pin.op = "append"
    /\ pout.last_purged_log_id.some
    /\ pout.last_purged_log_id.v.index >= 1
    /\ Cardinality(StoredIndices) >= 2
    /\ \E i \in StoredIndices : pout.log[i] # pout.log[MaxOf(StoredIndices)]

====
